---------------------------- MODULE Spec2Model ----------------------------
(***************************************************************************)
(* provider-github: the Repository reconciliation engine (late-            *)
(* initialisation, override, up-to-date check), the Repository adapter     *)
(* (Observe, Create, Update, Delete and the lookup with fallback) and the  *)
(* secret encryption and sync engine.                                      *)
(*                                                                         *)
(* Go values are modelled as follows.  A pointer to a string, a bool, an   *)
(* int64 or a struct is a set of at most one element: {} is the nil        *)
(* pointer and                                                             *)
(* {v} points to v, so that set equality is the deep comparison of         *)
(* cmp.Equal.  A struct is a record.  A repository full name is a sequence *)
(* of one-character strings, so that it can be split at "/".  An error is  *)
(* the sequence of its messages, outermost wrapper first; the nil error is *)
(* the empty sequence.                                                     *)
(*                                                                         *)
(* Two specifications are given.  SpecUnit calls the exported functions of *)
(* the packages clients/repositories and clients/secrets on bounded        *)
(* arguments.  Spec runs the Repository adapter against a hosting API and  *)
(* a local store that may fail.                                            *)
(***************************************************************************)
EXTENDS Naturals, Sequences, FiniteSets, TLC

VARIABLES
    unit,        \* SpecUnit: the package whose functions are called
    rp,          \* SpecUnit: the RepositoryParameters argument
    r,           \* SpecUnit: the github.Repository argument
    nset,        \* SpecUnit: how many fields of rp and r have been set
    ret,         \* SpecUnit: the last call, its environment and what it returned
    spec,        \* Spec: cr.Spec.ForProvider of the managed Repository
    atProvider,  \* Spec: cr.Status.AtProvider of the managed Repository
    condition,   \* Spec: the Ready condition of the managed Repository
    remote,      \* Spec: the repository held by the hosting API, Nil when absent
    edits,       \* Spec: how many changes the user and the hosting API have made
    result       \* Spec: the last adapter call, its environment and what it returned

unitVars == <<unit, rp, r, nset, ret>>
adapterVars == <<spec, atProvider, condition, remote, edits, result>>
vars == <<unit, rp, r, nset, ret, spec, atProvider, condition, remote, edits, result>>

-----------------------------------------------------------------------------
\* Bounds

\* SpecUnit: at most this many fields of rp and r together differ from unset.
MaxSet == 2

\* Spec: at most this many changes are made by the user and the hosting API.
MaxEdits == 2

-----------------------------------------------------------------------------
\* Values

Nil == {}

Deref(p) == CHOOSE x \in p : TRUE

StringPtr(p) == {p}

StringValue(v) == IF v = Nil THEN "" ELSE Deref(v)

NoErr == <<>>

Wrap(err, message) == IF err = NoErr THEN NoErr ELSE <<message>> \o err

ReasonCreating == "Creating"

ReasonAvailable == "Available"

errCheckUpToDate == "unable to determine if external resource is up to date"

errFullname == "The templateRef fullname is not valid. It needs to be in the format {owner}/{name}"

errGetRepository == "Cannot get GitHub repository"

errKubeUpdateRepository == "cannot update Repository custom resource"

\* The optional fields OverrideParameters copies, in the order of the code.
OverrideFields ==
    { "Description", "Homepage", "Private", "Visibility", "HasIssues",
      "HasProjects", "HasWiki", "AutoInit", "IsTemplate", "TeamID",
      "GitignoreTemplate", "LicenseTemplate", "AllowSquashMerge",
      "AllowMergeCommit", "AllowRebaseMerge", "DeleteBranchOnMerge",
      "HasPages", "HasDownloads", "DefaultBranch", "Archived" }

\* The optional fields LateInitialize fills by the plain rule
\* "rp.F == nil && r.F != nil"; DefaultBranch has its own rule.
LateInitFields ==
    { "Description", "Homepage", "Private", "Visibility", "HasIssues",
      "HasProjects", "HasWiki", "IsTemplate", "TeamID", "AutoInit",
      "GitignoreTemplate", "LicenseTemplate", "AllowSquashMerge",
      "AllowMergeCommit", "AllowRebaseMerge", "DeleteBranchOnMerge",
      "HasPages", "HasDownloads", "Archived" }

StringFields ==
    { "Description", "Homepage", "Visibility", "GitignoreTemplate",
      "LicenseTemplate" }

\* The values a field of v1alpha1.RepositoryParameters or github.Repository
\* takes in the model, by the Go type of the field.
FieldValues(f) ==
    IF f = "TeamID" THEN {1, 2}
    ELSE IF f = "DefaultBranch" THEN {"main", "dev"}
    ELSE IF f \in StringFields THEN {"a", "b"}
    ELSE BOOLEAN

Names == {"sample", "renamed"}

FullNames == { <<"o", "/", "t">>, <<"o", "/", "u">> }

\* v1alpha1.RepositoryParameters with only the owner given.
RepositoryParameters ==
    [f \in OverrideFields \cup {"Owner", "Name", "Organization", "Template"} |->
        IF f = "Owner" THEN "o" ELSE IF f = "Name" THEN "" ELSE Nil]

\* github.Repository{}: every field nil.
EmptyRepository ==
    [f \in OverrideFields \cup {"Name", "Owner", "Organization", "TemplateRepository"} |-> Nil]

\* The owner the hosting API reports for a repository of a personal account
\* and for a repository of an organization.
UserOwner == {[Type |-> {"User"}]}

OrganizationOwner == {[Type |-> {"Organization"}]}

\* github.Repository as the hosting API returns it for a repository of a
\* personal account: the owner is always present.
Repository == [EmptyRepository EXCEPT !.Owner = UserOwner]

OrganizationOf(login) == {[Login |-> {login}]}

\* The template origins the hosting API reports.
TemplateOrigins ==
    { {[FullName |-> {n}, DefaultBranch |-> {b}]} :
        n \in FullNames, b \in FieldValues("DefaultBranch") }

-----------------------------------------------------------------------------
\* package clients/repositories

\* cmp.Equal with cmpopts.IgnoreFields: two structs are equal when every
\* field that is not ignored is deeply equal.
cmpEqual(x, y, ignored) ==
    /\ DOMAIN x = DOMAIN y
    /\ \A f \in (DOMAIN x) \ ignored : x[f] = y[f]

OverrideParameters_HomepageFromDescription(p, base) ==
    [f \in DOMAIN base |->
        IF f = "Name"
        THEN IF Len(p.Name) # 0 THEN StringPtr(p.Name) ELSE base.Name
        ELSE IF f = "Homepage"
        THEN IF p[f] # Nil THEN p[f] ELSE base.Description
        ELSE IF f \in OverrideFields
        THEN IF p[f] # Nil THEN p[f] ELSE base[f]
        ELSE base[f]]

OverrideParameters_SkipsDefaultBranch(p, base) ==
    [f \in DOMAIN base |->
        IF f = "Name"
        THEN IF Len(p.Name) # 0 THEN StringPtr(p.Name) ELSE base.Name
        ELSE IF f \in OverrideFields \ {"DefaultBranch"}
        THEN IF p[f] # Nil THEN p[f] ELSE base[f]
        ELSE base[f]]

\* OverrideParameters returns base with the name replaced when rp.Name is
\* not empty, and each of the twenty optional fields replaced when the
\* field of rp is not nil.  base is passed by value.
OverrideParameters(p, base) ==
    [f \in DOMAIN base |->
        IF f = "Name"
        THEN IF Len(p.Name) # 0 THEN StringPtr(p.Name) ELSE base.Name
        ELSE IF f \in OverrideFields
        THEN IF p[f] # Nil THEN p[f] ELSE base[f]
        ELSE base[f]]

IsUpToDate_ComparesAutoInit(p, observed) ==
    [ok  |-> cmpEqual(OverrideParameters(p, observed), observed, {}),
     err |-> NoErr]

IsUpToDate_OverridesEmpty(p, observed) ==
    [ok  |-> cmpEqual(OverrideParameters(p, EmptyRepository), observed, {"AutoInit"}),
     err |-> NoErr]

\* IsUpToDate overrides a deep copy of observed (a value here, so the copy
\* is the value itself and cannot fail) and compares it with observed,
\* ignoring AutoInit.
IsUpToDate(p, observed) ==
    [ok  |-> cmpEqual(OverrideParameters(p, observed), observed, {"AutoInit"}),
     err |-> NoErr]

lateInitOrganization_Never(p, repo) == p.Organization

\* rp.Organization after LateInitialize: taken from r.Organization.Login
\* when it is unset and the owner of r is an organization.
lateInitOrganization(p, repo) ==
    IF p.Organization = Nil /\ StringValue(Deref(repo.Owner).Type) = "Organization"
    THEN IF Deref(repo.Organization).Login # Nil
         THEN Deref(repo.Organization).Login
         ELSE p.Organization
    ELSE p.Organization

lateInitField_Overwrites(p, repo, f) ==
    IF repo[f] # Nil THEN repo[f] ELSE p[f]

lateInitField_SkipsHomepage(p, repo, f) ==
    IF f # "Homepage" /\ p[f] = Nil /\ repo[f] # Nil THEN repo[f] ELSE p[f]

\* rp.F after LateInitialize, for each field F of LateInitFields:
\* "if rp.F == nil && r.F != nil { rp.F = r.F }".
lateInitField(p, repo, f) ==
    IF p[f] = Nil /\ repo[f] # Nil THEN repo[f] ELSE p[f]

lateInitTemplate_OnlyWhenUnset(p, repo) ==
    IF repo.TemplateRepository # Nil /\ p.Template = Nil
    THEN {[Name |-> Deref(Deref(repo.TemplateRepository).FullName)]}
    ELSE p.Template

\* rp.Template after LateInitialize: a fresh reference to the full name of
\* the template origin whenever r has one.
lateInitTemplate(p, repo) ==
    IF repo.TemplateRepository # Nil
    THEN {[Name |-> Deref(Deref(repo.TemplateRepository).FullName)]}
    ELSE p.Template

\* The condition under which the default branch is taken from the template.
creatingFromTemplate(repo, c) ==
    c.Reason = ReasonCreating /\ repo.TemplateRepository # Nil

lateInitDefaultBranch_OwnBranch(p, repo, c) ==
    IF p.DefaultBranch = Nil /\ repo.DefaultBranch # Nil
    THEN repo.DefaultBranch
    ELSE p.DefaultBranch

\* rp.DefaultBranch after LateInitialize.
lateInitDefaultBranch(p, repo, c) ==
    IF creatingFromTemplate(repo, c)
    THEN IF p.DefaultBranch = Nil
         THEN Deref(repo.TemplateRepository).DefaultBranch
         ELSE p.DefaultBranch
    ELSE IF p.DefaultBranch = Nil /\ repo.DefaultBranch # Nil
         THEN repo.DefaultBranch
         ELSE p.DefaultBranch

correctedDefaultBranch_WheneverCreating(p, repo, c) ==
    IF creatingFromTemplate(repo, c)
    THEN Deref(repo.TemplateRepository).DefaultBranch
    ELSE repo.DefaultBranch

correctedDefaultBranch_Uncorrected(p, repo, c) == repo.DefaultBranch

\* r.DefaultBranch after LateInitialize: overwritten with the default branch
\* of the template in the one case where rp.DefaultBranch is taken from it.
correctedDefaultBranch(p, repo, c) ==
    IF creatingFromTemplate(repo, c) /\ p.DefaultBranch = Nil
    THEN Deref(repo.TemplateRepository).DefaultBranch
    ELSE repo.DefaultBranch

\* LateInitialize mutates *rp and, for the default branch, *r: the result
\* holds both objects as they are when the call returns.
LateInitialize(p, repo, c) ==
    [rp |-> [f \in DOMAIN p |->
                IF f = "Organization" THEN lateInitOrganization(p, repo)
                ELSE IF f \in LateInitFields THEN lateInitField(p, repo, f)
                ELSE IF f = "Template" THEN lateInitTemplate(p, repo)
                ELSE IF f = "DefaultBranch" THEN lateInitDefaultBranch(p, repo, c)
                ELSE p[f]],
     r  |-> [repo EXCEPT !.DefaultBranch = correctedDefaultBranch(p, repo, c)]]

-----------------------------------------------------------------------------
\* SpecUnit, package clients/repositories: the arguments are built one field
\* at a time, then the functions are called.

Conditions == { [Reason |-> ""], [Reason |-> ReasonCreating], [Reason |-> ReasonAvailable] }

ParameterValues(f) ==
    IF f = "Name" THEN Names
    ELSE IF f = "Organization" THEN {StringPtr("acme")}
    ELSE IF f = "Template" THEN { {[Name |-> n]} : n \in FullNames }
    ELSE IF f \in OverrideFields THEN { {v} : v \in FieldValues(f) }
    ELSE {}

ObservedValues(f) ==
    IF f = "Name" THEN { StringPtr(n) : n \in Names }
    ELSE IF f = "Owner" THEN {OrganizationOwner}
    ELSE IF f = "TemplateRepository" THEN TemplateOrigins
    ELSE IF f \in OverrideFields THEN { {v} : v \in FieldValues(f) }
    ELSE {}

\* repo with field f set to v; a repository owned by an organization also
\* carries the organization.
WithObserved(repo, f, v) ==
    IF f = "Owner"
    THEN [repo EXCEPT !.Owner = v, !.Organization = OrganizationOf("acme")]
    ELSE [repo EXCEPT ![f] = v]

NoCall == [op |-> "none"]

SetParameter ==
    /\ unit = "repositories"
    /\ ret = NoCall
    /\ nset < MaxSet
    /\ \E f \in DOMAIN rp : \E v \in ParameterValues(f) :
          /\ rp[f] = RepositoryParameters[f]
          /\ rp' = [rp EXCEPT ![f] = v]
    /\ nset' = nset + 1
    /\ UNCHANGED <<unit, r, ret>>
    /\ UNCHANGED adapterVars

SetObserved ==
    /\ unit = "repositories"
    /\ ret = NoCall
    /\ nset < MaxSet
    /\ \E f \in DOMAIN r : \E v \in ObservedValues(f) :
          /\ r[f] = Repository[f]
          /\ r' = WithObserved(r, f, v)
    /\ nset' = nset + 1
    /\ UNCHANGED <<unit, rp, ret>>
    /\ UNCHANGED adapterVars

CallOverrideParameters ==
    /\ unit = "repositories"
    /\ ret' = [op |-> "OverrideParameters", out |-> OverrideParameters(rp, r)]
    /\ UNCHANGED <<unit, rp, r, nset>>
    /\ UNCHANGED adapterVars

CallIsUpToDate ==
    /\ unit = "repositories"
    /\ LET out == IsUpToDate(rp, r)
       IN  ret' = [op |-> "IsUpToDate", ok |-> out.ok, err |-> out.err]
    /\ UNCHANGED <<unit, rp, r, nset>>
    /\ UNCHANGED adapterVars

CallLateInitialize ==
    /\ unit = "repositories"
    /\ \E c \in Conditions :
          LET out == LateInitialize(rp, r, c)
          IN  /\ rp' = out.rp
              /\ r' = out.r
              /\ ret' = [op |-> "LateInitialize", c |-> c, rp0 |-> rp, r0 |-> r]
    /\ UNCHANGED <<unit, nset>>
    /\ UNCHANGED adapterVars


-----------------------------------------------------------------------------
\* package clients/secrets

Plaintexts == {"", "test", "fR4k3y"}

\* generateHash: the SHA-256 digest of the value, in hexadecimal.
generateHash(secretValue) ==
    CASE secretValue = "" ->
            "e3b0c44298fc1c149afbf4c8996fb92427ae41e4649b934ca495991b7852b855"
      [] secretValue = "test" ->
            "9f86d081884c7d659a2feaa0c55ad015a3bf4f1b2b0b822cd15d6c15b0f00a08"
      [] secretValue = "fR4k3y" ->
            "d2ed49f58c995dabbab9182c1adbae4146b02d149a9c38e6e2dbbaec87f370da"

\* base64.StdEncoding.DecodeString on the keys of the model.
base64Decode(encoded) ==
    CASE encoded = "" -> [bytes |-> "", err |-> NoErr]
      [] encoded = "ZjRrM2szeQ==" -> [bytes |-> "f4k3k3y", err |-> NoErr]
      [] OTHER -> [bytes |-> "", err |-> <<"illegal base64 data">>]

Errorf(format, err) == <<format>> \o err

\* The repository public key the hosting API returns.
PublicKey == {[KeyID |-> {"172354871263548712365487"}, Key |-> {"ZjRrM2szeQ=="}]}

\* The times the hosting API reports as the last update of a secret, and
\* time.Time.String of them.
Times == {0, 1}

TimestampString(t) ==
    IF t = 0 THEN "0001-01-01 00:00:00 +0000 UTC"
    ELSE "2021-06-01 12:00:00 +0000 UTC"

\* SecretsParameters: the secret reference is complete; whether the store
\* holds a value under it is the store's matter.
SecretsParameters ==
    [Owner |-> "fakeOwner", Repository |-> "fakeRepository",
     Value |-> [Name |-> "fakeNameReference", Key |-> "fakeKeySelector"]]

\* resource.ExtractSecret: the bytes the local store holds under the
\* reference, or no bytes and an error.  client is Nil when the store has
\* no such secret, else it points to the value.
ExtractSecret(client, ref) ==
    IF client = Nil
    THEN [val |-> "", err |-> <<"cannot get credentials secret">>]
    ELSE [val |-> Deref(client), err |-> NoErr]

\* encryptSecret: the key is decoded, the value sealed with a fresh
\* ephemeral key (gh.rand), and the record to upload is built.  The sealed
\* value is a term of the receiving key, the ephemeral key and the value.
encryptSecret(publicKey, secretName, secretValue, rand) ==
    LET decoded == base64Decode(StringValue(Deref(publicKey).Key))
    IN  IF decoded.err # NoErr
        THEN [secret |-> Nil,
              err |-> Errorf("base64.StdEncoding.DecodeString was unable to decode public key: ", decoded.err)]
        ELSE [secret |-> {[Name |-> secretName,
                           KeyID |-> StringValue(Deref(publicKey).KeyID),
                           EncryptedValue |-> <<"sealed", decoded.bytes, rand, secretValue>>]},
              err |-> NoErr]

\* callEncryptSecret: fetch the public key, extract the value (the error of
\* the extraction is discarded), encrypt and hash.
callEncryptSecret(client, cr, name, gh) ==
    IF gh.key.err # NoErr
    THEN [secret |-> Nil, hash |-> "", err |-> gh.key.err]
    ELSE LET val == ExtractSecret(client, cr.Value).val
             enc == encryptSecret(gh.key.publicKey, name, val, gh.rand)
         IN  IF enc.err # NoErr
             THEN [secret |-> Nil, hash |-> "", err |-> enc.err]
             ELSE [secret |-> enc.secret, hash |-> generateHash(val), err |-> NoErr]

CreateOrUpdateSec_HashDespiteFailure(cr, name, client, gh) ==
    LET enc == callEncryptSecret(client, cr, name, gh)
    IN  IF enc.err # NoErr
        THEN [hash |-> "", err |-> Errorf("error to call secret: ", enc.err), sent |-> Nil]
        ELSE IF gh.upload.err # NoErr
        THEN [hash |-> enc.hash,
              err |-> Errorf("error to create or update secret: ", gh.upload.err),
              sent |-> enc.secret]
        ELSE [hash |-> enc.hash, err |-> NoErr, sent |-> enc.secret]

\* CreateOrUpdateSec: sent is the record handed to CreateOrUpdateRepoSecret,
\* Nil when that call is not made.
CreateOrUpdateSec(cr, name, client, gh) ==
    LET enc == callEncryptSecret(client, cr, name, gh)
    IN  IF enc.err # NoErr
        THEN [hash |-> "", err |-> Errorf("error to call secret: ", enc.err), sent |-> Nil]
        ELSE IF gh.upload.err # NoErr
        THEN [hash |-> "", err |-> Errorf("error to create or update secret: ", gh.upload.err),
              sent |-> enc.secret]
        ELSE [hash |-> enc.hash, err |-> NoErr, sent |-> enc.secret]

SecretsIsUpToDate_IgnoresLastUpdate(client, p, o, name, gh) ==
    IF gh.secret.err # NoErr
    THEN [ud |-> FALSE, err |-> Errorf("error to get secret from github: ", gh.secret.err)]
    ELSE LET enc == callEncryptSecret(client, p, name, gh)
         IN  IF enc.err # NoErr
             THEN [ud |-> FALSE, err |-> Errorf("error to call secret: ", enc.err)]
             ELSE IF enc.hash # Deref(o.EncryptValue)
             THEN [ud |-> FALSE, err |-> NoErr]
             ELSE [ud |-> TRUE, err |-> NoErr]

\* secrets.IsUpToDate.
SecretsIsUpToDate(client, p, o, name, gh) ==
    IF gh.secret.err # NoErr
    THEN [ud |-> FALSE, err |-> Errorf("error to get secret from github: ", gh.secret.err)]
    ELSE LET enc == callEncryptSecret(client, p, name, gh)
         IN  IF enc.err # NoErr
             THEN [ud |-> FALSE, err |-> Errorf("error to call secret: ", enc.err)]
             ELSE IF enc.hash # Deref(o.EncryptValue)
             THEN [ud |-> FALSE, err |-> NoErr]
             ELSE IF TimestampString(Deref(gh.secret.sec).UpdatedAt) # Deref(o.LastUpdate)
             THEN [ud |-> FALSE, err |-> NoErr]
             ELSE [ud |-> TRUE, err |-> NoErr]

\* The calls each function of the package makes, in order, to the hosting
\* API and to the local store (ExtractSecret).
callEncryptSecretCalls(gh) ==
    <<"GetRepoPublicKey">> \o (IF gh.key.err # NoErr THEN <<>> ELSE <<"ExtractSecret">>)

CreateOrUpdateSecCalls(cr, name, client, gh) ==
    callEncryptSecretCalls(gh)
        \o (IF callEncryptSecret(client, cr, name, gh).err # NoErr THEN <<>>
            ELSE <<"CreateOrUpdateRepoSecret">>)

SecretsIsUpToDateCalls(gh) ==
    <<"GetRepoSecret">>
        \o (IF gh.secret.err # NoErr THEN <<>> ELSE callEncryptSecretCalls(gh))

-----------------------------------------------------------------------------
\* SpecUnit, package clients/secrets: the functions are called with every
\* answer the hosting API and the local store can give.

Failures == { NoErr, <<"boom">> }

\* What GetRepoSecret, GetRepoPublicKey and CreateOrUpdateRepoSecret answer,
\* and the ephemeral key drawn from crypto/rand.
SecretsServices ==
    { [secret |-> [sec |-> IF e = NoErr THEN {[Name |-> "TESTSECRET", UpdatedAt |-> t]} ELSE Nil,
                   err |-> e],
       key    |-> [publicKey |-> IF k = NoErr THEN PublicKey ELSE Nil, err |-> k],
       upload |-> [err |-> u],
       rand   |-> n] :
        e \in Failures, t \in Times, k \in Failures, u \in Failures, n \in {1, 2} }

\* The local store: no value under the reference, or one of the values.
SecretStores == {Nil} \cup { {v} : v \in Plaintexts }

\* The cached observation of a secret that has been uploaded.
SecretsObservations ==
    { [EncryptValue |-> {h}, LastUpdate |-> {u}] :
        h \in { generateHash(v) : v \in Plaintexts } \cup {"fakeHash"},
        u \in { TimestampString(t) : t \in Times } \cup {"anytime"} }

SecretName == "fakeTest"

CallSecretsIsUpToDate ==
    /\ unit = "secrets"
    /\ \E gh \in SecretsServices, client \in SecretStores, o \in SecretsObservations :
          /\ gh.upload.err = NoErr
          /\ LET out == SecretsIsUpToDate(client, SecretsParameters, o, SecretName, gh)
             IN  ret' = [op |-> "secrets.IsUpToDate", gh |-> gh, client |-> client,
                         o |-> o, ud |-> out.ud, err |-> out.err]
    /\ UNCHANGED <<unit, rp, r, nset>>
    /\ UNCHANGED adapterVars

CallCreateOrUpdateSec ==
    /\ unit = "secrets"
    /\ \E gh \in SecretsServices, client \in SecretStores :
          /\ gh.secret.err = NoErr
          /\ LET out == CreateOrUpdateSec(SecretsParameters, SecretName, client, gh)
             IN  ret' = [op |-> "CreateOrUpdateSec", gh |-> gh, client |-> client,
                         hash |-> out.hash, err |-> out.err, sent |-> out.sent]
    /\ UNCHANGED <<unit, rp, r, nset>>
    /\ UNCHANGED adapterVars

-----------------------------------------------------------------------------
\* The managed Repository before its first reconciliation.

InitAdapter ==
    /\ spec = [RepositoryParameters EXCEPT !.Name = "sample"]
    /\ atProvider = [Name |-> ""]
    /\ condition = [Reason |-> ""]
    /\ remote = Nil
    /\ edits = 0
    /\ result = NoCall

InitUnit ==
    /\ InitAdapter
    /\ unit \in {"repositories", "secrets"}
    /\ rp = RepositoryParameters
    /\ r = Repository
    /\ nset = 0
    /\ ret = NoCall

NextUnit ==
    \/ SetParameter
    \/ SetObserved
    \/ CallOverrideParameters
    \/ CallIsUpToDate
    \/ CallLateInitialize
    \/ CallSecretsIsUpToDate
    \/ CallCreateOrUpdateSec

SpecUnit == InitUnit /\ [][NextUnit]_vars


-----------------------------------------------------------------------------
\* Properties of the package clients/repositories, under SpecUnit.

\* Whether field f of RepositoryParameters p is set: Owner and Name are
\* strings, set when not empty; the others are pointers, set when not nil.
IsSet(p, f) == IF f \in {"Owner", "Name"} THEN p[f] # "" ELSE p[f] # Nil

\* C1: IsUpToDate(rp, r) is true exactly when OverrideParameters(rp, r)
\* equals r in every field but AutoInit; that is, exactly when the name
\* (if the desired name is not empty) and every optional field other than
\* AutoInit that rp sets already have rp's value in r.  A difference in
\* AutoInit alone never makes it false.  It returns no error.
C1_UpToDateIffOverrideEqualsObserved ==
    ret.op = "IsUpToDate" =>
        /\ ret.err = NoErr
        /\ ret.ok <=> (\A f \in (DOMAIN r) \ {"AutoInit"} :
                          OverrideParameters(rp, r)[f] = r[f])
        /\ ret.ok <=> /\ rp.Name # "" => r.Name = {rp.Name}
                      /\ \A f \in OverrideFields \ {"AutoInit"} :
                            rp[f] # Nil => r[f] = rp[f]

C1_Witness ==
    /\ ret.op = "IsUpToDate"
    /\ rp.AutoInit # Nil
    /\ r.AutoInit # rp.AutoInit
    /\ ret.ok

\* C5 as stated: LateInitialize changes no field of rp that was set before
\* the call.
C5_NoSetFieldChanges ==
    ret.op = "LateInitialize" =>
        \A f \in DOMAIN rp : IsSet(ret.rp0, f) => rp[f] = ret.rp0[f]

\* C5 as amended: LateInitialize changes no field of rp that was set before
\* the call, except the template reference, which it replaces whenever the
\* observed repository has a template origin; without a template origin the
\* template reference is unchanged too.
C5_NoSetFieldChangesButTemplate ==
    ret.op = "LateInitialize" =>
        /\ \A f \in (DOMAIN rp) \ {"Template"} :
              IsSet(ret.rp0, f) => rp[f] = ret.rp0[f]
        /\ ret.r0.TemplateRepository = Nil => rp.Template = ret.rp0.Template

C5_Witness ==
    /\ ret.op = "LateInitialize"
    /\ \E f \in LateInitFields \cup {"DefaultBranch"} :
          /\ ret.rp0[f] # Nil
          /\ ret.r0[f] # Nil
          /\ ret.r0[f] # ret.rp0[f]
          /\ rp[f] = ret.rp0[f]

\* C6: for each optional field that LateInitialize treats by the plain rule
\* (all but organization, template reference and default branch), a field
\* that was nil in rp has the value of the observed field after the call:
\* filled when the observed field is not nil, still nil when it is nil.
C6_NilFieldsFilledFromObserved ==
    ret.op = "LateInitialize" =>
        \A f \in LateInitFields : ret.rp0[f] = Nil => rp[f] = ret.r0[f]

C6_Witness ==
    /\ ret.op = "LateInitialize"
    /\ \E f \in LateInitFields :
          ret.rp0[f] = Nil /\ ret.r0[f] # Nil /\ rp[f] = ret.r0[f]
    /\ \E f \in LateInitFields :
          ret.rp0[f] = Nil /\ ret.r0[f] = Nil /\ rp[f] = Nil

\* C7: when rp.DefaultBranch is unset, LateInitialize takes it from the
\* template origin exactly when the reason is Creating and the observed
\* repository has a template origin; otherwise it takes the observed
\* repository's own default branch (and stays nil when that is nil).
C7_DefaultBranchFromTemplateWhenCreating ==
    (ret.op = "LateInitialize" /\ ret.rp0.DefaultBranch = Nil) =>
        IF ret.c.Reason = ReasonCreating /\ ret.r0.TemplateRepository # Nil
        THEN rp.DefaultBranch = Deref(ret.r0.TemplateRepository).DefaultBranch
        ELSE rp.DefaultBranch = ret.r0.DefaultBranch

C7_Witness ==
    /\ ret.op = "LateInitialize"
    /\ ret.c.Reason = ReasonCreating
    /\ ret.rp0.DefaultBranch = Nil
    /\ ret.r0.TemplateRepository # Nil
    /\ ret.r0.DefaultBranch # Nil
    /\ ret.r0.DefaultBranch # Deref(ret.r0.TemplateRepository).DefaultBranch
    /\ rp.DefaultBranch = Deref(ret.r0.TemplateRepository).DefaultBranch

\* C8: in OverrideParameters(rp, r) every optional field that rp sets has
\* rp's value and every one that rp leaves nil keeps the value of r; the
\* name is rp's exactly when rp.Name is not empty; the fields of r without
\* a counterpart of the same type in rp are kept.
C8_OverrideReplacesSetFields ==
    ret.op = "OverrideParameters" =>
        /\ \A f \in OverrideFields :
              ret.out[f] = IF rp[f] # Nil THEN rp[f] ELSE r[f]
        /\ ret.out.Name = IF rp.Name # "" THEN {rp.Name} ELSE r.Name
        /\ \A f \in (DOMAIN r) \ (OverrideFields \cup {"Name"}) : ret.out[f] = r[f]

C8_Witness ==
    /\ ret.op = "OverrideParameters"
    /\ \E f \in OverrideFields :
          rp[f] # Nil /\ r[f] # Nil /\ r[f] # rp[f] /\ ret.out[f] = rp[f]

-----------------------------------------------------------------------------
\* Properties of the package clients/secrets, under SpecUnit.

\* C9: when the remote secret and the public key are fetched and the
\* plaintext is extracted, secrets.IsUpToDate returns no error, and returns
\* true exactly when the hash of the current plaintext equals the cached
\* hash and the remote updated-at string equals the cached last update.
C9_SecretUpToDateIffHashAndTimeMatch ==
    ( /\ ret.op = "secrets.IsUpToDate"
      /\ ret.gh.secret.err = NoErr
      /\ ret.gh.key.err = NoErr
      /\ ret.client # Nil ) =>
        /\ ret.err = NoErr
        /\ ret.ud <=>
              /\ generateHash(Deref(ret.client)) = Deref(ret.o.EncryptValue)
              /\ TimestampString(Deref(ret.gh.secret.sec).UpdatedAt) = Deref(ret.o.LastUpdate)

C9_Witness ==
    /\ ret.op = "secrets.IsUpToDate"
    /\ ret.gh.secret.err = NoErr
    /\ ret.gh.key.err = NoErr
    /\ ret.client # Nil
    /\ generateHash(Deref(ret.client)) = Deref(ret.o.EncryptValue)
    /\ TimestampString(Deref(ret.gh.secret.sec).UpdatedAt) # Deref(ret.o.LastUpdate)
    /\ ret.ud = FALSE
    /\ ret.err = NoErr

\* C10: when the plaintext cannot be extracted from the local store, the
\* up-to-date check and CreateOrUpdateSec return an error; CreateOrUpdateSec
\* hands nothing to the hosting API and returns no hash.
C10_ExtractionFailureIsAnError ==
    ( /\ ret.op \in {"secrets.IsUpToDate", "CreateOrUpdateSec"}
      /\ ret.client = Nil ) =>
        /\ ret.err # NoErr
        /\ ret.op = "CreateOrUpdateSec" => (ret.sent = Nil /\ ret.hash = "")


\* C17: whenever the observed repository has a template origin,
\* LateInitialize sets the template reference to the origin's full name,
\* whether or not one was set and whatever the condition reason; without a
\* template origin the template reference is unchanged.
C17_TemplateFollowsOrigin ==
    ret.op = "LateInitialize" =>
        IF ret.r0.TemplateRepository # Nil
        THEN rp.Template = {[Name |-> Deref(Deref(ret.r0.TemplateRepository).FullName)]}
        ELSE rp.Template = ret.rp0.Template

\* A template reference that was set is replaced by another origin, while
\* the repository is not being created.
C17_Witness ==
    /\ ret.op = "LateInitialize"
    /\ ret.c.Reason = ReasonAvailable
    /\ ret.rp0.Template # Nil
    /\ ret.r0.TemplateRepository # Nil
    /\ Deref(ret.rp0.Template).Name # Deref(Deref(ret.r0.TemplateRepository).FullName)
    /\ Deref(rp.Template).Name = Deref(Deref(ret.r0.TemplateRepository).FullName)

OtherKey(gh) ==
    [gh EXCEPT !.key.publicKey = {[KeyID |-> {"other"}, Key |-> {""}]},
               !.rand = 3 - gh.rand]

\* C19: CreateOrUpdateSec fetches the public key before any upload: when
\* the key fetch fails it returns an empty hash and an error and makes no
\* upload; when the upload fails it returns an empty hash and an error;
\* only when both succeed does it return no error and the hash of the
\* plaintext that was uploaded, which is the same under another key,
\* another secret name and another ciphertext.
C19_HashOnlyAfterUpload ==
    ret.op = "CreateOrUpdateSec" =>
        IF ret.gh.key.err # NoErr
        THEN ret.hash = "" /\ ret.err # NoErr /\ ret.sent = Nil
        ELSE IF ret.gh.upload.err # NoErr
        THEN ret.hash = "" /\ ret.err # NoErr
        ELSE LET other == CreateOrUpdateSec(SecretsParameters, "otherName", ret.client,
                                            OtherKey(ret.gh))
             IN  /\ ret.err = NoErr
                 /\ ret.sent # Nil
                 /\ ret.hash = generateHash(Deref(ret.sent).EncryptedValue[4])
                 /\ other.sent # ret.sent
                 /\ Deref(other.sent).EncryptedValue # Deref(ret.sent).EncryptedValue
                 /\ other.hash = ret.hash

\* The value fR4k3y was uploaded and its digest returned.
C19_Witness ==
    /\ ret.op = "CreateOrUpdateSec"
    /\ ret.client = {"fR4k3y"}
    /\ ret.err = NoErr
    /\ ret.sent # Nil
    /\ ret.hash = "d2ed49f58c995dabbab9182c1adbae4146b02d149a9c38e6e2dbbaec87f370da"

-----------------------------------------------------------------------------
\* The hosting API, as the adapter sees it through repositories.Service.
\* It holds at most one repository of the owner: remote is Nil or points to
\* it.  Every call is answered "ok" (served: the answer then depends on
\* what the API holds), "error" (served with status 500) or "transport" (no
\* response arrived, so the *github.Response is nil).

Answers == {"ok", "error", "transport"}

Response(code) == {[StatusCode |-> code]}

apiFailure(answer) ==
    IF answer = "transport"
    THEN [res |-> Nil, err |-> <<"transport failure">>]
    ELSE [res |-> Response(500), err |-> <<"500 Internal Server Error">>]

apiNotFound == [res |-> Response(404), err |-> <<"404 Not Found">>]

Holds(rem, name) == rem # Nil /\ Deref(rem).Name = {name}

\* Service.Get
Get(rem, owner, name, answer) ==
    IF answer # "ok"
    THEN [repo |-> Nil, res |-> apiFailure(answer).res, err |-> apiFailure(answer).err]
    ELSE IF Holds(rem, name)
    THEN [repo |-> rem, res |-> Response(200), err |-> NoErr]
    ELSE [repo |-> Nil, res |-> apiNotFound.res, err |-> apiNotFound.err]

\* Service.Create: the API stores the body under the account it is created
\* for; AutoInit is acted upon but not stored.
apiCreate(rem, org, repo, answer) ==
    IF answer # "ok"
    THEN [remote |-> rem, res |-> apiFailure(answer).res, err |-> apiFailure(answer).err]
    ELSE IF rem # Nil
    THEN [remote |-> rem, res |-> Response(422), err |-> <<"422 Unprocessable Entity">>]
    ELSE [remote |-> {[repo EXCEPT !.AutoInit = Nil,
                                   !.Owner = IF org = "" THEN UserOwner ELSE OrganizationOwner,
                                   !.Organization = IF org = "" THEN Nil ELSE {[Login |-> {org}]}]},
          res |-> Response(201), err |-> NoErr]

\* Service.CreateFromTemplate: "notfound" when the template does not exist.
\* The new repository first reports the default branch "main", whatever
\* the default branch of the template (branch) is.
apiCreateFromTemplate(rem, templateOwner, templateRepo, req, answer, branch) ==
    IF answer = "notfound"
    THEN [remote |-> rem, res |-> apiNotFound.res, err |-> apiNotFound.err]
    ELSE IF answer # "ok"
    THEN [remote |-> rem, res |-> apiFailure(answer).res, err |-> apiFailure(answer).err]
    ELSE IF rem # Nil
    THEN [remote |-> rem, res |-> Response(422), err |-> <<"422 Unprocessable Entity">>]
    ELSE [remote |-> {[Repository EXCEPT
                          !.Name = req.Name,
                          !.Description = req.Description,
                          !.Private = req.Private,
                          !.DefaultBranch = {"main"},
                          !.TemplateRepository =
                              {[FullName |-> {templateOwner \o <<"/">> \o templateRepo},
                                DefaultBranch |-> {branch}]}]},
          res |-> Response(201), err |-> NoErr]

\* Service.Edit: the API stores the body in place of the repository of
\* that name; AutoInit is not stored.
apiEdit(rem, owner, name, repo, answer) ==
    IF answer # "ok"
    THEN [remote |-> rem, res |-> apiFailure(answer).res, err |-> apiFailure(answer).err]
    ELSE IF ~Holds(rem, name)
    THEN [remote |-> rem, res |-> apiNotFound.res, err |-> apiNotFound.err]
    ELSE [remote |-> {[repo EXCEPT !.AutoInit = Deref(rem).AutoInit]},
          res |-> Response(200), err |-> NoErr]

\* Service.Delete
apiDelete(rem, owner, name, answer) ==
    IF answer # "ok"
    THEN [remote |-> rem, res |-> apiFailure(answer).res, err |-> apiFailure(answer).err]
    ELSE IF ~Holds(rem, name)
    THEN [remote |-> rem, res |-> apiNotFound.res, err |-> apiNotFound.err]
    ELSE [remote |-> Nil, res |-> Response(204), err |-> NoErr]

-----------------------------------------------------------------------------
\* package clients/repositories, continued

\* GenerateObservation: only the name is kept of the observation.
GenerateObservation(repo) == [Name |-> StringValue(repo.Name)]

\* strings.Split on a sequence of characters.
RECURSIVE Split(_, _)
Split(s, sep) ==
    IF \A i \in 1..Len(s) : s[i] # sep
    THEN <<s>>
    ELSE LET i == CHOOSE j \in 1..Len(s) :
                    s[j] = sep /\ \A k \in 1..(j - 1) : s[k] # sep
         IN  <<SubSeq(s, 1, i - 1)>> \o Split(SubSeq(s, i + 1, Len(s)), sep)

SplitFullName(fullname) ==
    LET split == Split(fullname, "/")
    IN  IF Len(split) # 2
        THEN [ref |-> Nil, err |-> <<errFullname>>]
        ELSE [ref |-> {[owner |-> split[1], name |-> split[2]]}, err |-> NoErr]

GenerateTemplateRepoRequest(p) ==
    [Name        |-> IF Len(p.Name) # 0 THEN StringPtr(p.Name) ELSE Nil,
     Owner       |-> IF Len(p.Owner) # 0 THEN StringPtr(p.Owner) ELSE Nil,
     Description |-> p.Description,
     Private     |-> p.Private]

-----------------------------------------------------------------------------
\* package controller/repositories: the Repository adapter.  Each handler is
\* an operator from the managed resource, the hosting API and the answers
\* of the collaborators to the state it leaves and what it returns.

errUnexpectedObject == "The managed resource is not a Repository resource"

errCreateRepository == "cannot create Repository"

errUpdateRepository == "cannot update Repository"

errDeleteRepository == "cannot delete Repository"

errTemplateNotFound == "the referenced repository template was not found"

\* managed.ExternalObservation{}
EmptyObservation ==
    [ResourceExists |-> FALSE, ResourceUpToDate |-> FALSE, ResourceLateInitialized |-> FALSE]

GetRepository_NoFallback(rem, owner, specName, statusName, answers) ==
    LET first == Get(rem, owner, specName, answers[1])
    IN  [repo |-> first.repo, res |-> first.res, err |-> first.err,
         lookups |-> <<[name |-> specName, res |-> first.res, err |-> first.err]>>]

\* GetRepository: lookups lists the Get calls made, in order.
GetRepository(rem, owner, specName, statusName, answers) ==
    LET first == Get(rem, owner, specName, answers[1])
        second == Get(rem, owner, statusName, answers[2])
        one == <<[name |-> specName, res |-> first.res, err |-> first.err]>>
        two == one \o <<[name |-> statusName, res |-> second.res, err |-> second.err]>>
    IN  IF first.err = NoErr
        THEN [repo |-> first.repo, res |-> first.res, err |-> NoErr, lookups |-> one]
        ELSE IF second.err # NoErr
        THEN [repo |-> Nil, res |-> second.res, err |-> second.err, lookups |-> two]
        ELSE [repo |-> second.repo, res |-> second.res, err |-> NoErr, lookups |-> two]

NoGet == [repo |-> Nil, res |-> Nil, err |-> NoErr, lookups |-> <<>>]

isNotFound_Never(res) == FALSE

\* res.StatusCode == 404
isNotFound(res) == Deref(res).StatusCode = 404

ObserveReturn_AlwaysAvailable(sp, st, cond, p, repo, get, kube, observation, err) ==
    [spec |-> sp, atProvider |-> st, condition |-> [Reason |-> ReasonAvailable],
     rp |-> p, r |-> repo, get |-> get, kube |-> kube, observation |-> observation,
     err |-> err, panic |-> FALSE]

\* What Observe returns and leaves, given what it leaves of the managed
\* resource (sp, st, cond), the objects in its memory when it returns
\* (p, repo), the lookup, the errors the local store returned to each
\* Update call, the observation and the error.
ObserveReturn(sp, st, cond, p, repo, get, kube, observation, err) ==
    [spec |-> sp, atProvider |-> st, condition |-> cond, rp |-> p, r |-> repo,
     get |-> get, kube |-> kube, observation |-> observation, err |-> err,
     panic |-> FALSE]

observeAvailable_NeverLateInitialized(li, changed, upToDate, get, kube) ==
    ObserveReturn(li.rp, GenerateObservation(li.r), [Reason |-> ReasonAvailable],
                  li.rp, {li.r}, get, kube,
                  [ResourceExists |-> TRUE, ResourceUpToDate |-> upToDate.ok,
                   ResourceLateInitialized |-> FALSE],
                  NoErr)

\* The end of Observe once the repository is fetched and the spec stored:
\* the condition, the status and the observation returned.
observeAvailable(li, changed, upToDate, get, kube) ==
    IF upToDate.err # NoErr
    THEN ObserveReturn(li.rp, GenerateObservation(li.r), [Reason |-> ReasonAvailable],
                       li.rp, {li.r}, get, kube, EmptyObservation,
                       Wrap(upToDate.err, errCheckUpToDate))
    ELSE ObserveReturn(li.rp, GenerateObservation(li.r), [Reason |-> ReasonAvailable],
                       li.rp, {li.r}, get, kube,
                       [ResourceExists |-> TRUE, ResourceUpToDate |-> upToDate.ok,
                        ResourceLateInitialized |-> changed],
                       NoErr)

\* external.Observe.  A nil response is dereferenced when the lookup failed
\* without one: the handler panics and leaves the managed resource as it
\* was.  When the store update fails the late-initialized spec is lost with
\* the handler's memory: the stored spec is the one before the call.
Observe(mg, sp, st, cond, rem, answers, kubeErr) ==
    LET get == GetRepository(rem, sp.Owner, sp.Name, st.Name, answers)
        li == LateInitialize(sp, Deref(get.repo), cond)
        changed == ~cmpEqual(sp, li.rp, {})
        upToDate == IsUpToDate(li.rp, li.r)
    IN  IF mg # "Repository"
        THEN ObserveReturn(sp, st, cond, sp, Nil, NoGet, <<>>, EmptyObservation,
                           <<errUnexpectedObject>>)
        ELSE IF get.err # NoErr
        THEN IF get.res = Nil
             THEN [ObserveReturn(sp, st, cond, sp, Nil, get, <<>>, EmptyObservation, NoErr)
                      EXCEPT !.panic = TRUE]
             ELSE IF isNotFound(get.res)
             THEN ObserveReturn(sp, st, cond, sp, Nil, get, <<>>, EmptyObservation, NoErr)
             ELSE ObserveReturn(sp, st, cond, sp, Nil, get, <<>>, EmptyObservation,
                                Wrap(get.err, errGetRepository))
        ELSE IF changed /\ kubeErr # NoErr
        THEN ObserveReturn(sp, st, cond, li.rp, {li.r}, get, <<kubeErr>>, EmptyObservation,
                           Wrap(kubeErr, errKubeUpdateRepository))
        ELSE observeAvailable(li, changed, upToDate, get,
                              IF changed THEN <<kubeErr>> ELSE <<>>)

\* What Create, Update and Delete return and leave: the condition, the
\* hosting API, the calls made to it and the error.
HandlerReturn(cond, rem, calls, err) ==
    [condition |-> cond, remote |-> rem, calls |-> calls, err |-> err, panic |-> FALSE]

CreateRepository_PlainError(repository, rem, answer, branch) ==
    IF repository.Template = Nil
    THEN LET repo == OverrideParameters(repository, EmptyRepository)
             org == StringValue(repository.Organization)
             api == apiCreate(rem, org, repo, answer)
         IN  [remote |-> api.remote, err |-> api.err, panic |-> FALSE,
              calls |-> <<[call |-> "Create", org |-> org, repo |-> repo,
                           res |-> api.res, err |-> api.err]>>]
    ELSE LET templateRef == SplitFullName(Deref(repository.Template).Name)
             ref == Deref(templateRef.ref)
             repo == GenerateTemplateRepoRequest(repository)
             api == apiCreateFromTemplate(rem, ref.owner, ref.name, repo, answer, branch)
             calls == <<[call |-> "CreateFromTemplate", owner |-> ref.owner,
                         name |-> ref.name, repo |-> repo,
                         res |-> api.res, err |-> api.err]>>
         IN  IF templateRef.err # NoErr
             THEN [remote |-> rem, err |-> templateRef.err, panic |-> FALSE, calls |-> <<>>]
             ELSE IF api.res = Nil
             THEN [remote |-> api.remote, err |-> NoErr, panic |-> TRUE, calls |-> calls]
             ELSE [remote |-> api.remote, err |-> api.err, panic |-> FALSE, calls |-> calls]

\* external.CreateRepository
CreateRepository(repository, rem, answer, branch) ==
    IF repository.Template = Nil
    THEN LET repo == OverrideParameters(repository, EmptyRepository)
             org == StringValue(repository.Organization)
             api == apiCreate(rem, org, repo, answer)
         IN  [remote |-> api.remote, err |-> api.err, panic |-> FALSE,
              calls |-> <<[call |-> "Create", org |-> org, repo |-> repo,
                           res |-> api.res, err |-> api.err]>>]
    ELSE LET templateRef == SplitFullName(Deref(repository.Template).Name)
             ref == Deref(templateRef.ref)
             repo == GenerateTemplateRepoRequest(repository)
             api == apiCreateFromTemplate(rem, ref.owner, ref.name, repo, answer, branch)
             calls == <<[call |-> "CreateFromTemplate", owner |-> ref.owner,
                         name |-> ref.name, repo |-> repo,
                         res |-> api.res, err |-> api.err]>>
         IN  IF templateRef.err # NoErr
             THEN [remote |-> rem, err |-> templateRef.err, panic |-> FALSE, calls |-> <<>>]
             ELSE IF api.res = Nil
             THEN [remote |-> api.remote, err |-> NoErr, panic |-> TRUE, calls |-> calls]
             ELSE IF isNotFound(api.res)
             THEN [remote |-> api.remote, err |-> Wrap(api.err, errTemplateNotFound),
                   panic |-> FALSE, calls |-> calls]
             ELSE [remote |-> api.remote, err |-> api.err, panic |-> FALSE, calls |-> calls]

Create_AlwaysCreating(mg, sp, cond, rem, answer, branch) ==
    LET created == CreateRepository(sp, rem, answer, branch)
    IN  IF mg # "Repository"
        THEN HandlerReturn(cond, rem, <<>>, <<errUnexpectedObject>>)
        ELSE IF created.panic
        THEN [HandlerReturn(cond, created.remote, created.calls, NoErr) EXCEPT !.panic = TRUE]
        ELSE HandlerReturn([Reason |-> ReasonCreating], created.remote, created.calls,
                           Wrap(created.err, errCreateRepository))

\* external.Create
Create(mg, sp, cond, rem, answer, branch) ==
    LET created == CreateRepository(sp, rem, answer, branch)
    IN  IF mg # "Repository"
        THEN HandlerReturn(cond, rem, <<>>, <<errUnexpectedObject>>)
        ELSE IF created.panic
        THEN [HandlerReturn(cond, created.remote, created.calls, NoErr) EXCEPT !.panic = TRUE]
        ELSE IF created.err # NoErr
        THEN HandlerReturn(cond, created.remote, created.calls,
                           Wrap(created.err, errCreateRepository))
        ELSE HandlerReturn([Reason |-> ReasonCreating], created.remote, created.calls, NoErr)

Update_EditsBySpecName(mg, sp, st, cond, rem, answers, answer) ==
    LET get == GetRepository(rem, sp.Owner, sp.Name, st.Name, answers)
        repo == OverrideParameters(sp, Deref(get.repo))
        api == apiEdit(rem, sp.Owner, sp.Name, repo, answer)
    IN  IF mg # "Repository"
        THEN HandlerReturn(cond, rem, <<>>, <<errUnexpectedObject>>)
        ELSE IF get.err # NoErr
        THEN HandlerReturn(cond, rem, get.lookups, Wrap(get.err, errGetRepository))
        ELSE HandlerReturn(cond, api.remote,
                           get.lookups \o <<[call |-> "Edit", owner |-> sp.Owner,
                                             name |-> sp.Name, repo |-> repo,
                                             res |-> api.res, err |-> api.err]>>,
                           Wrap(api.err, errUpdateRepository))

Update_SendsFetched(mg, sp, st, cond, rem, answers, answer) ==
    LET get == GetRepository(rem, sp.Owner, sp.Name, st.Name, answers)
        repo == Deref(get.repo)
        api == apiEdit(rem, sp.Owner, st.Name, repo, answer)
    IN  IF mg # "Repository"
        THEN HandlerReturn(cond, rem, <<>>, <<errUnexpectedObject>>)
        ELSE IF get.err # NoErr
        THEN HandlerReturn(cond, rem, get.lookups, Wrap(get.err, errGetRepository))
        ELSE HandlerReturn(cond, api.remote,
                           get.lookups \o <<[call |-> "Edit", owner |-> sp.Owner,
                                             name |-> st.Name, repo |-> repo,
                                             res |-> api.res, err |-> api.err]>>,
                           Wrap(api.err, errUpdateRepository))

\* external.Update
Update(mg, sp, st, cond, rem, answers, answer) ==
    LET get == GetRepository(rem, sp.Owner, sp.Name, st.Name, answers)
        repo == OverrideParameters(sp, Deref(get.repo))
        api == apiEdit(rem, sp.Owner, st.Name, repo, answer)
    IN  IF mg # "Repository"
        THEN HandlerReturn(cond, rem, <<>>, <<errUnexpectedObject>>)
        ELSE IF get.err # NoErr
        THEN HandlerReturn(cond, rem, get.lookups, Wrap(get.err, errGetRepository))
        ELSE HandlerReturn(cond, api.remote,
                           get.lookups \o <<[call |-> "Edit", owner |-> sp.Owner,
                                             name |-> st.Name, repo |-> repo,
                                             res |-> api.res, err |-> api.err]>>,
                           Wrap(api.err, errUpdateRepository))

\* external.Delete
Delete(mg, sp, cond, rem, answer) ==
    LET api == apiDelete(rem, sp.Owner, sp.Name, answer)
    IN  IF mg # "Repository"
        THEN HandlerReturn(cond, rem, <<>>, <<errUnexpectedObject>>)
        ELSE HandlerReturn(cond, api.remote,
                           <<[call |-> "Delete", owner |-> sp.Owner, name |-> sp.Name,
                              res |-> api.res, err |-> api.err]>>,
                           Wrap(api.err, errDeleteRepository))

-----------------------------------------------------------------------------
\* The Repository adapter at work.  The managed reconciler calls Observe,
\* then Create when Observe reported no repository, Update when it
\* reported one that is not up to date, Delete when it reported one and
\* deletion is asked for; a handler handed another kind of resource may be
\* called at any time.  Meanwhile the user edits the spec and the
\* repositories of the hosting API come, change and go.

\* The kind of the managed resource handed to a handler.
ManagedKinds == {"Repository", "Secrets", "Membership"}

\* The fields the user and the hosting API's other clients edit.
UserFields == {"Name", "Description", "HasIssues", "DefaultBranch", "Template"}

RemoteFields == {"Name", "Description", "HasIssues", "DefaultBranch"}

UserValues(f) ==
    IF f = "Template"
    THEN { {[Name |-> n]} : n \in {<<"o", "/", "t">>, <<"o", "t">>} }
    ELSE ParameterValues(f)

Observed == result.op = "Observe" /\ ~result.panic /\ result.err = NoErr

\* A resource of another kind than Repository.
OtherKinds == ManagedKinds \ {"Repository"}

\* The answers to the fallback lookup: it is made only when the lookup by
\* the spec name failed.
FallbackAnswers(a1) ==
    IF Get(remote, spec.Owner, spec.Name, a1).err = NoErr THEN {"ok"} ELSE Answers

\* One call of a handler: out is what the call leaves, taken once.
ObserveCall(mg, answers, kubeErr) ==
    \E out \in {Observe(mg, spec, atProvider, condition, remote, answers, kubeErr)} :
        /\ spec' = out.spec
        /\ atProvider' = out.atProvider
        /\ condition' = out.condition
        /\ result' = [op |-> "Observe", mg |-> mg, spec0 |-> spec,
                      atProvider0 |-> atProvider, condition0 |-> condition,
                      rp |-> out.rp, r |-> out.r, get |-> out.get, kube |-> out.kube,
                      observation |-> out.observation, err |-> out.err,
                      panic |-> out.panic]
        /\ UNCHANGED <<remote, edits>>
        /\ UNCHANGED unitVars

DoObserve ==
    \/ \E a1 \in Answers : \E a2 \in FallbackAnswers(a1) : \E kubeErr \in Failures :
          ObserveCall("Repository", <<a1, a2>>, kubeErr)
    \/ \E mg \in OtherKinds : ObserveCall(mg, <<"ok", "ok">>, NoErr)

CreateCall(mg, answer, branch) ==
    \E out \in {Create(mg, spec, condition, remote, answer, branch)} :
        /\ condition' = out.condition
        /\ remote' = out.remote
        /\ result' = [op |-> "Create", mg |-> mg, condition0 |-> condition,
                      remote0 |-> remote, calls |-> out.calls, err |-> out.err,
                      panic |-> out.panic]
        /\ UNCHANGED <<spec, atProvider, edits>>
        /\ UNCHANGED unitVars

DoCreate ==
    \/ /\ Observed
       /\ ~result.observation.ResourceExists
       /\ \E answer \in Answers \cup {"notfound"}, branch \in FieldValues("DefaultBranch") :
             CreateCall("Repository", answer, branch)
    \/ \E mg \in OtherKinds : CreateCall(mg, "ok", "main")

UpdateCall(mg, answers, answer) ==
    \E out \in {Update(mg, spec, atProvider, condition, remote, answers, answer)} :
        /\ remote' = out.remote
        /\ result' = [op |-> "Update", mg |-> mg, remote0 |-> remote,
                      calls |-> out.calls, err |-> out.err, panic |-> out.panic]
        /\ UNCHANGED <<spec, atProvider, condition, edits>>
        /\ UNCHANGED unitVars

DoUpdate ==
    \/ /\ Observed
       /\ result.observation.ResourceExists
       /\ ~result.observation.ResourceUpToDate
       /\ \E a1 \in Answers : \E a2 \in FallbackAnswers(a1) : \E answer \in Answers :
             UpdateCall("Repository", <<a1, a2>>, answer)
    \/ \E mg \in OtherKinds : UpdateCall(mg, <<"ok", "ok">>, "ok")

DeleteCall(mg, answer) ==
    \E out \in {Delete(mg, spec, condition, remote, answer)} :
        /\ remote' = out.remote
        /\ result' = [op |-> "Delete", mg |-> mg, remote0 |-> remote,
                      calls |-> out.calls, err |-> out.err, panic |-> out.panic]
        /\ UNCHANGED <<spec, atProvider, condition, edits>>
        /\ UNCHANGED unitVars

DoDelete ==
    \/ /\ Observed
       /\ result.observation.ResourceExists
       /\ \E answer \in Answers : DeleteCall("Repository", answer)
    \/ \E mg \in OtherKinds : DeleteCall(mg, "ok")

UserEdit ==
    /\ edits < MaxEdits
    /\ \E f \in UserFields : \E v \in UserValues(f) :
        /\ spec[f] # v
        /\ spec' = [spec EXCEPT ![f] = v]
    /\ edits' = edits + 1
    /\ result' = [op |-> "UserEdit"]
    /\ UNCHANGED <<atProvider, condition, remote>>
    /\ UNCHANGED unitVars

RemoteAppears ==
    /\ edits < MaxEdits
    /\ remote = Nil
    /\ \E n \in Names :
        \/ remote' = {[Repository EXCEPT !.Name = {n}]}
        \/ remote' = {WithObserved([Repository EXCEPT !.Name = {n}], "Owner", OrganizationOwner)}
    /\ edits' = edits + 1
    /\ UNCHANGED <<spec, atProvider, condition, result>>
    /\ UNCHANGED unitVars

RemoteEdit ==
    /\ edits < MaxEdits
    /\ remote # Nil
    /\ \E f \in RemoteFields : \E v \in ObservedValues(f) :
        /\ Deref(remote)[f] # v
        /\ remote' = {WithObserved(Deref(remote), f, v)}
    /\ edits' = edits + 1
    /\ UNCHANGED <<spec, atProvider, condition, result>>
    /\ UNCHANGED unitVars

RemoteDisappears ==
    /\ edits < MaxEdits
    /\ remote # Nil
    /\ remote' = Nil
    /\ edits' = edits + 1
    /\ UNCHANGED <<spec, atProvider, condition, result>>
    /\ UNCHANGED unitVars

Init ==
    /\ InitAdapter
    /\ unit = "adapter"
    /\ rp = RepositoryParameters
    /\ r = Repository
    /\ nset = 0
    /\ ret = NoCall

Next ==
    \/ DoObserve
    \/ DoCreate
    \/ DoUpdate
    \/ DoDelete
    \/ UserEdit
    \/ RemoteAppears
    \/ RemoteEdit
    \/ RemoteDisappears

Spec == Init /\ [][Next]_vars


-----------------------------------------------------------------------------
\* Properties of the Repository adapter's Observe, under Spec.

\* result is what a call of Observe on a Repository left.
ObservedRepository == result.op = "Observe" /\ result.mg = "Repository"

\* Whether late-initialization changed the desired spec during the call.
SpecChanged == ~cmpEqual(result.spec0, result.rp, {})

\* What C2 promises of a call that fetched the repository.
ReportsFetched ==
    /\ ~result.panic
    /\ result.err = NoErr
    /\ result.observation.ResourceExists
    /\ result.observation.ResourceUpToDate = IsUpToDate(result.rp, Deref(result.r)).ok
    /\ result.observation.ResourceLateInitialized <=> SpecChanged
    /\ Len(result.kube) = IF SpecChanged THEN 1 ELSE 0

\* C2, as stated: when the remote fetch succeeds, Observe returns
\* ResourceExists=true, ResourceUpToDate equal to the up-to-date check of the
\* late-initialized spec against the fetched object, and
\* ResourceLateInitialized=true exactly when late-initialization changed the
\* spec, the local store update being called once in that case and not at
\* all otherwise.
C2_FetchedIsReportedExisting ==
    (ObservedRepository /\ result.get.err = NoErr) => ReportsFetched

\* C2, amended: the same, provided the local store update, when it is made,
\* succeeds; when it fails Observe returns the failure wrapped with
\* "cannot update Repository custom resource" and an empty observation, and
\* the up-to-date check is against the fetched object as late-initialization
\* left it.
C2_FetchedAndStoredIsReportedExisting ==
    (ObservedRepository /\ result.get.err = NoErr) =>
        IF \A i \in DOMAIN result.kube : result.kube[i] = NoErr
        THEN ReportsFetched
        ELSE /\ SpecChanged
             /\ result.kube = << <<"boom">> >>
             /\ result.err = Wrap(<<"boom">>, errKubeUpdateRepository)
             /\ result.observation = EmptyObservation

\* A call that fetched the repository, filled the spec from it and stored
\* the spec.
C2_Witness ==
    /\ ObservedRepository
    /\ result.get.err = NoErr
    /\ SpecChanged
    /\ result.kube = <<NoErr>>
    /\ result.observation.ResourceExists
    /\ result.observation.ResourceLateInitialized

\* The fetch failed with a 404 response.
FetchNotFound ==
    /\ result.get.err # NoErr
    /\ result.get.res # Nil
    /\ Deref(result.get.res).StatusCode = 404

\* C3: when the fetch fails with a 404, Observe returns ResourceExists=false
\* and no error, does not late-initialize the spec, does not call the local
\* store and leaves the status observation as it was.
C3_NotFoundIsAbsentWithoutError ==
    (ObservedRepository /\ FetchNotFound) =>
        /\ ~result.panic
        /\ result.err = NoErr
        /\ ~result.observation.ResourceExists
        /\ result.rp = result.spec0
        /\ spec = result.spec0
        /\ result.kube = <<>>
        /\ atProvider = result.atProvider0
        /\ condition = result.condition0

\* The repository observed before is gone: the 404 leaves the observation
\* of the earlier call in the status.
C3_Witness ==
    /\ ObservedRepository
    /\ FetchNotFound
    /\ result.err = NoErr
    /\ result.atProvider0.Name = "sample"
    /\ atProvider.Name = "sample"
    /\ remote = Nil

\* Lookup l failed with something else than a 404.
FailedOtherThanNotFound(l) ==
    /\ l.err # NoErr
    /\ l.res = Nil \/ Deref(l.res).StatusCode # 404

\* C4, as stated: when locating the repository fails with an error other
\* than not-found, also when it is the lookup by the spec name that fails so
\* and the fallback lookup is then made, Observe returns that error wrapped
\* with "Cannot get GitHub repository" and does not report the repository as
\* non-existent.
C4_OtherFailureIsWrappedError ==
    (/\ ObservedRepository
     /\ result.get.err # NoErr
     /\ \E i \in DOMAIN result.get.lookups : FailedOtherThanNotFound(result.get.lookups[i])) =>
        /\ ~result.panic
        /\ \E i \in DOMAIN result.get.lookups :
              /\ FailedOtherThanNotFound(result.get.lookups[i])
              /\ result.err = Wrap(result.get.lookups[i].err, errGetRepository)


-----------------------------------------------------------------------------
\* package controller/secrets: the Secrets adapter.  Under SpecSecrets the
\* managed resource is a Secrets resource: spec is its SecretsParameters,
\* atProvider its SecretsObservation, and remote is the secret the hosting
\* API holds under the external name, Nil when it holds none.

errUnexpectedSecrets == "The managed resource is not a Secrets resource"

errCreateSecrets == "cannot create Secrets"

errUpdateSecrets == "cannot update Secrets"

errDeleteSecrets == "cannot delete Secrets"

errVerifyUpToDate == "Error to verify if is up to date"

errGetSecret == "Error to get secret from GitHub"

ReasonDeleting == "Deleting"

\* SecretsObservation{}: nothing cached.
SecretsObservation == [EncryptValue |-> Nil, LastUpdate |-> Nil]

\* secrets.Service over the hosting API: GetRepoSecret fails as the API
\* says (getErr) or with a 404 when no secret is held; the other calls
\* answer as given.
SecretsService(rem, getErr, keyErr, uploadErr, rand) ==
    [secret |-> IF getErr # NoErr THEN [sec |-> Nil, err |-> getErr]
                ELSE IF rem = Nil THEN [sec |-> Nil, err |-> apiNotFound.err]
                ELSE [sec |-> rem, err |-> NoErr],
     key    |-> [publicKey |-> IF keyErr = NoErr THEN PublicKey ELSE Nil, err |-> keyErr],
     upload |-> [err |-> uploadErr],
     rand   |-> rand]

\* What a handler of the Secrets adapter returns and leaves; calls are the
\* calls it made to the hosting API and to the local store.
SecretsReturn(st, cond, rem, observation, sent, calls, err) ==
    [atProvider |-> st, condition |-> cond, remote |-> rem,
     observation |-> observation, sent |-> sent, calls |-> calls, err |-> err]

\* secrets external.Observe
SecretsObserve(mg, sp, st, cond, rem, client, getErr, keyErr) ==
    LET gh == SecretsService(rem, getErr, keyErr, NoErr, 1)
        check == SecretsIsUpToDate(client, sp, st, SecretName, gh)
        available == [Reason |-> ReasonAvailable]
    IN  IF mg # "Secrets"
        THEN SecretsReturn(st, cond, rem, EmptyObservation, Nil, <<>>, <<errUnexpectedSecrets>>)
        ELSE IF st.EncryptValue = Nil
        THEN SecretsReturn(st, available, rem,
                           [ResourceExists |-> FALSE, ResourceUpToDate |-> TRUE,
                            ResourceLateInitialized |-> FALSE], Nil, <<>>, NoErr)
        ELSE IF check.err # NoErr
        THEN SecretsReturn(st, available, rem, EmptyObservation, Nil,
                           SecretsIsUpToDateCalls(gh), Wrap(check.err, errVerifyUpToDate))
        ELSE SecretsReturn(st, available, rem,
                           [ResourceExists |-> TRUE, ResourceUpToDate |-> check.ud,
                            ResourceLateInitialized |-> FALSE], Nil,
                           SecretsIsUpToDateCalls(gh), NoErr)

\* The secret the hosting API holds after CreateOrUpdateRepoSecret was
\* called with sent at time t and answered uploadErr.
Uploaded(rem, sent, uploadErr, t) ==
    IF sent = Nil \/ uploadErr # NoErr
    THEN rem
    ELSE {[Name |-> Deref(sent).Name, UpdatedAt |-> t,
           EncryptedValue |-> Deref(sent).EncryptedValue]}

SecretsUpload_CachesBeforeFetch(mg, sp, st, cond, rem, client, keyErr, uploadErr, rand, t, getErr, message, done) ==
    LET gh == SecretsService(rem, NoErr, keyErr, uploadErr, rand)
        created == CreateOrUpdateSec(sp, SecretName, client, gh)
        held == Uploaded(rem, created.sent, uploadErr, t)
        get == SecretsService(held, getErr, NoErr, NoErr, rand).secret
    IN  IF mg # "Secrets"
        THEN SecretsReturn(st, cond, rem, EmptyObservation, Nil, <<>>, <<errUnexpectedSecrets>>)
        ELSE IF created.err # NoErr
        THEN SecretsReturn(st, cond, held, EmptyObservation, created.sent,
                           CreateOrUpdateSecCalls(sp, SecretName, client, gh),
                           Wrap(created.err, message))
        ELSE IF get.err # NoErr
        THEN SecretsReturn([st EXCEPT !.EncryptValue = {created.hash}],
                           cond, held, EmptyObservation, created.sent,
                           CreateOrUpdateSecCalls(sp, SecretName, client, gh)
                               \o <<"GetRepoSecret">>,
                           Wrap(get.err, errGetSecret))
        ELSE SecretsReturn([LastUpdate |-> StringPtr(TimestampString(Deref(get.sec).UpdatedAt)),
                            EncryptValue |-> {created.hash}],
                           done, held, EmptyObservation, created.sent,
                           CreateOrUpdateSecCalls(sp, SecretName, client, gh)
                               \o <<"GetRepoSecret">>,
                           NoErr)

SecretsUpload_CachesValue(mg, sp, st, cond, rem, client, keyErr, uploadErr, rand, t, getErr, message, done) ==
    LET gh == SecretsService(rem, NoErr, keyErr, uploadErr, rand)
        created == CreateOrUpdateSec(sp, SecretName, client, gh)
        held == Uploaded(rem, created.sent, uploadErr, t)
        get == SecretsService(held, getErr, NoErr, NoErr, rand).secret
    IN  IF mg # "Secrets"
        THEN SecretsReturn(st, cond, rem, EmptyObservation, Nil, <<>>, <<errUnexpectedSecrets>>)
        ELSE IF created.err # NoErr
        THEN SecretsReturn(st, cond, held, EmptyObservation, created.sent,
                           CreateOrUpdateSecCalls(sp, SecretName, client, gh),
                           Wrap(created.err, message))
        ELSE IF get.err # NoErr
        THEN SecretsReturn(st, cond, held, EmptyObservation, created.sent,
                           CreateOrUpdateSecCalls(sp, SecretName, client, gh)
                               \o <<"GetRepoSecret">>,
                           Wrap(get.err, errGetSecret))
        ELSE SecretsReturn([LastUpdate |-> StringPtr(TimestampString(Deref(get.sec).UpdatedAt)),
                            EncryptValue |-> {ExtractSecret(client, sp.Value).val}],
                           done, held, EmptyObservation, created.sent,
                           CreateOrUpdateSecCalls(sp, SecretName, client, gh)
                               \o <<"GetRepoSecret">>,
                           NoErr)

\* The part Create and Update share: upload, read the secret back, cache
\* the hash and the time of the last update.
SecretsUpload(mg, sp, st, cond, rem, client, keyErr, uploadErr, rand, t, getErr, message, done) ==
    LET gh == SecretsService(rem, NoErr, keyErr, uploadErr, rand)
        created == CreateOrUpdateSec(sp, SecretName, client, gh)
        held == Uploaded(rem, created.sent, uploadErr, t)
        get == SecretsService(held, getErr, NoErr, NoErr, rand).secret
    IN  IF mg # "Secrets"
        THEN SecretsReturn(st, cond, rem, EmptyObservation, Nil, <<>>, <<errUnexpectedSecrets>>)
        ELSE IF created.err # NoErr
        THEN SecretsReturn(st, cond, held, EmptyObservation, created.sent,
                           CreateOrUpdateSecCalls(sp, SecretName, client, gh),
                           Wrap(created.err, message))
        ELSE IF get.err # NoErr
        THEN SecretsReturn(st, cond, held, EmptyObservation, created.sent,
                           CreateOrUpdateSecCalls(sp, SecretName, client, gh)
                               \o <<"GetRepoSecret">>,
                           Wrap(get.err, errGetSecret))
        ELSE SecretsReturn([LastUpdate |-> StringPtr(TimestampString(Deref(get.sec).UpdatedAt)),
                            EncryptValue |-> {created.hash}],
                           done, held, EmptyObservation, created.sent,
                           CreateOrUpdateSecCalls(sp, SecretName, client, gh)
                               \o <<"GetRepoSecret">>,
                           NoErr)

\* secrets external.Create
SecretsCreate(mg, sp, st, cond, rem, client, keyErr, uploadErr, rand, t, getErr) ==
    SecretsUpload(mg, sp, st, cond, rem, client, keyErr, uploadErr, rand, t, getErr,
                  errCreateSecrets, [Reason |-> ReasonCreating])

\* secrets external.Update
SecretsUpdate(mg, sp, st, cond, rem, client, keyErr, uploadErr, rand, t, getErr) ==
    SecretsUpload(mg, sp, st, cond, rem, client, keyErr, uploadErr, rand, t, getErr,
                  errUpdateSecrets, cond)

SecretsDelete_KeepsCache(mg, sp, st, cond, rem, deleteErr) ==
    LET err == IF deleteErr # NoErr THEN deleteErr
               ELSE IF rem = Nil THEN apiNotFound.err ELSE NoErr
    IN  IF mg # "Secrets"
        THEN SecretsReturn(st, cond, rem, EmptyObservation, Nil, <<>>, <<errUnexpectedSecrets>>)
        ELSE IF err # NoErr
        THEN SecretsReturn(st, cond, rem, EmptyObservation, Nil, <<"DeleteRepoSecret">>,
                           Wrap(err, errDeleteSecrets))
        ELSE SecretsReturn(st, [Reason |-> ReasonDeleting], Nil,
                           EmptyObservation, Nil, <<"DeleteRepoSecret">>, NoErr)

\* secrets external.Delete
SecretsDelete(mg, sp, st, cond, rem, deleteErr) ==
    LET err == IF deleteErr # NoErr THEN deleteErr
               ELSE IF rem = Nil THEN apiNotFound.err ELSE NoErr
    IN  IF mg # "Secrets"
        THEN SecretsReturn(st, cond, rem, EmptyObservation, Nil, <<>>, <<errUnexpectedSecrets>>)
        ELSE IF err # NoErr
        THEN SecretsReturn(st, cond, rem, EmptyObservation, Nil, <<"DeleteRepoSecret">>,
                           Wrap(err, errDeleteSecrets))
        ELSE SecretsReturn(SecretsObservation, [Reason |-> ReasonDeleting], Nil,
                           EmptyObservation, Nil, <<"DeleteRepoSecret">>, NoErr)


-----------------------------------------------------------------------------
\* The Secrets adapter at work.  The managed reconciler calls Observe, then
\* Create when Observe reported no secret, Update when it reported one that
\* is not up to date, Delete when it reported one and deletion is asked
\* for.  The value the local store holds under the reference may be any at
\* each call (the user rotates it, or removes it); meanwhile other clients
\* of the hosting API update and remove the secret.

SecretsObserved == result.op = "Observe" /\ result.err = NoErr

NotSecrets == ManagedKinds \ {"Secrets"}

SecretsObserveCall(mg, client, getErr, keyErr) ==
    \E out \in {SecretsObserve(mg, spec, atProvider, condition, remote, client, getErr, keyErr)} :
        /\ condition' = out.condition
        /\ result' = [op |-> "Observe", mg |-> mg, client |-> client,
                      getErr |-> getErr, keyErr |-> keyErr,
                      atProvider0 |-> atProvider, condition0 |-> condition,
                      remote0 |-> remote, observation |-> out.observation,
                      calls |-> out.calls, err |-> out.err]
        /\ UNCHANGED <<spec, atProvider, remote, edits>>
        /\ UNCHANGED unitVars

DoSecretsObserve ==
    \/ \E client \in SecretStores, getErr \in Failures, keyErr \in Failures :
          SecretsObserveCall("Secrets", client, getErr, keyErr)
    \/ \E mg \in NotSecrets : SecretsObserveCall(mg, Nil, NoErr, NoErr)

SecretsCreateCall(mg, client, keyErr, uploadErr, rand, t, getErr) ==
    \E out \in {SecretsCreate(mg, spec, atProvider, condition, remote, client,
                             keyErr, uploadErr, rand, t, getErr)} :
        /\ atProvider' = out.atProvider
        /\ condition' = out.condition
        /\ remote' = out.remote
        /\ result' = [op |-> "Create", mg |-> mg, client |-> client,
                      keyErr |-> keyErr, uploadErr |-> uploadErr, getErr |-> getErr,
                      atProvider0 |-> atProvider, condition0 |-> condition,
                      remote0 |-> remote, observation |-> out.observation,
                      sent |-> out.sent, calls |-> out.calls, err |-> out.err]
        /\ UNCHANGED <<spec, edits>>
        /\ UNCHANGED unitVars

DoSecretsCreate ==
    \/ /\ SecretsObserved
       /\ ~result.observation.ResourceExists
       /\ \E client \in SecretStores, keyErr \in Failures, uploadErr \in Failures,
             rand \in {1, 2}, t \in Times, getErr \in Failures :
             SecretsCreateCall("Secrets", client, keyErr, uploadErr, rand, t, getErr)
    \/ \E mg \in NotSecrets : SecretsCreateCall(mg, Nil, NoErr, NoErr, 1, 0, NoErr)

SecretsUpdateCall(mg, client, keyErr, uploadErr, rand, t, getErr) ==
    \E out \in {SecretsUpdate(mg, spec, atProvider, condition, remote, client,
                             keyErr, uploadErr, rand, t, getErr)} :
        /\ atProvider' = out.atProvider
        /\ condition' = out.condition
        /\ remote' = out.remote
        /\ result' = [op |-> "Update", mg |-> mg, client |-> client,
                      keyErr |-> keyErr, uploadErr |-> uploadErr, getErr |-> getErr,
                      atProvider0 |-> atProvider, condition0 |-> condition,
                      remote0 |-> remote, observation |-> out.observation,
                      sent |-> out.sent, calls |-> out.calls, err |-> out.err]
        /\ UNCHANGED <<spec, edits>>
        /\ UNCHANGED unitVars

DoSecretsUpdate ==
    \/ /\ SecretsObserved
       /\ result.observation.ResourceExists
       /\ ~result.observation.ResourceUpToDate
       /\ \E client \in SecretStores, keyErr \in Failures, uploadErr \in Failures,
             rand \in {1, 2}, t \in Times, getErr \in Failures :
             SecretsUpdateCall("Secrets", client, keyErr, uploadErr, rand, t, getErr)
    \/ \E mg \in NotSecrets : SecretsUpdateCall(mg, Nil, NoErr, NoErr, 1, 0, NoErr)

SecretsDeleteCall(mg, deleteErr) ==
    \E out \in {SecretsDelete(mg, spec, atProvider, condition, remote, deleteErr)} :
        /\ atProvider' = out.atProvider
        /\ condition' = out.condition
        /\ remote' = out.remote
        /\ result' = [op |-> "Delete", mg |-> mg, deleteErr |-> deleteErr,
                      atProvider0 |-> atProvider, condition0 |-> condition,
                      remote0 |-> remote, observation |-> out.observation,
                      calls |-> out.calls, err |-> out.err]
        /\ UNCHANGED <<spec, edits>>
        /\ UNCHANGED unitVars

DoSecretsDelete ==
    \/ /\ SecretsObserved
       /\ result.observation.ResourceExists
       /\ \E deleteErr \in Failures : SecretsDeleteCall("Secrets", deleteErr)
    \/ \E mg \in NotSecrets : SecretsDeleteCall(mg, NoErr)

\* Another client uploads the secret anew: the time of its last update
\* changes.
RemoteSecretUpdated ==
    /\ edits < MaxEdits
    /\ remote # Nil
    /\ \E t \in Times :
          /\ Deref(remote).UpdatedAt # t
          /\ remote' = {[Deref(remote) EXCEPT !.UpdatedAt = t]}
    /\ edits' = edits + 1
    /\ UNCHANGED <<spec, atProvider, condition, result>>
    /\ UNCHANGED unitVars

RemoteSecretRemoved ==
    /\ edits < MaxEdits
    /\ remote # Nil
    /\ remote' = Nil
    /\ edits' = edits + 1
    /\ UNCHANGED <<spec, atProvider, condition, result>>
    /\ UNCHANGED unitVars

InitSecrets ==
    /\ unit = "secrets adapter"
    /\ rp = RepositoryParameters
    /\ r = Repository
    /\ nset = 0
    /\ ret = NoCall
    /\ spec = SecretsParameters
    /\ atProvider = SecretsObservation
    /\ condition = [Reason |-> ""]
    /\ remote = Nil
    /\ edits = 0
    /\ result = NoCall

NextSecrets ==
    \/ DoSecretsObserve
    \/ DoSecretsCreate
    \/ DoSecretsUpdate
    \/ DoSecretsDelete
    \/ RemoteSecretUpdated
    \/ RemoteSecretRemoved

SpecSecrets == InitSecrets /\ [][NextSecrets]_vars

-----------------------------------------------------------------------------
\* Properties of the Secrets adapter, under SpecSecrets.

\* C11: when, during a Secrets Observe, the hosting API reports the secret
\* as not found while a hash is still cached in the status, Observe reports
\* ResourceExists=false and no error.
C11_RemovedSecretIsAbsentWithoutError ==
    (/\ result.op = "Observe"
     /\ result.mg = "Secrets"
     /\ result.atProvider0.EncryptValue # Nil
     /\ result.remote0 = Nil
     /\ result.getErr = NoErr) =>
        /\ result.err = NoErr
        /\ ~result.observation.ResourceExists


-----------------------------------------------------------------------------
\* Further properties of the Repository adapter, under Spec.

\* C12: GetRepository looks the repository up by the spec name first and
\* returns that result without a second lookup when it succeeds; only when
\* it fails is the status name looked up, once, and then the repository is
\* returned on success and otherwise no repository with the response and
\* the error of the second lookup.  At most two lookups are made.
C12_LookupBySpecNameThenStatusName ==
    ObservedRepository =>
        LET get == result.get
            l == get.lookups
        IN  /\ Len(l) \in {1, 2}
            /\ l[1].name = result.spec0.Name
            /\ l[1].err = NoErr =>
                  /\ Len(l) = 1
                  /\ get.err = NoErr
                  /\ get.res = l[1].res
                  /\ get.repo # Nil
                  /\ Deref(get.repo).Name = {l[1].name}
            /\ l[1].err # NoErr =>
                  /\ Len(l) = 2
                  /\ l[2].name = result.atProvider0.Name
                  /\ get.res = l[2].res
                  /\ get.err = l[2].err
                  /\ l[2].err # NoErr => get.repo = Nil
                  /\ l[2].err = NoErr =>
                        get.repo # Nil /\ Deref(get.repo).Name = {l[2].name}

\* The spec was renamed after the repository was observed: the lookup by
\* the spec name fails and the one by the status name finds it.
C12_Witness ==
    /\ ObservedRepository
    /\ Len(result.get.lookups) = 2
    /\ result.get.lookups[1].name = "renamed"
    /\ result.get.lookups[1].err # NoErr
    /\ result.get.lookups[2].name = "sample"
    /\ result.get.err = NoErr
    /\ Deref(result.get.repo).Name = {"sample"}


\* The entries of a handler's calls: lookups made by GetRepository, and
\* calls that change the hosting API.
IsLookup(c) == "call" \notin DOMAIN c

IsCall(c) == "call" \in DOMAIN c

\* C13: Update fetches the repository anew; when the fetch fails it returns
\* the error wrapped with "Cannot get GitHub repository" and makes no edit
\* call; otherwise it makes exactly one edit call, whose body is
\* OverrideParameters(spec, fetched repository), and returns nil when the
\* edit succeeds and its error wrapped with "cannot update Repository" when
\* it fails.
C13_UpdateEditsFetchedWithOverride ==
    (result.op = "Update" /\ result.mg = "Repository") =>
        LET lookups == SelectSeq(result.calls, IsLookup)
            fetch == lookups[Len(lookups)]
            made == SelectSeq(result.calls, IsCall)
        IN  /\ lookups # <<>>
            /\ ~result.panic
            /\ IF fetch.err # NoErr
               THEN /\ made = <<>>
                    /\ result.err = <<errGetRepository>> \o fetch.err
               ELSE /\ Len(made) = 1
                    /\ made[1].call = "Edit"
                    /\ made[1].repo = OverrideParameters(spec, Deref(result.remote0))
                    /\ made[1].err = NoErr => result.err = NoErr
                    /\ made[1].err # NoErr =>
                          result.err = <<errUpdateRepository>> \o made[1].err

\* An Update that changed the repository of the hosting API to what the
\* spec asks for.
C13_Witness ==
    /\ result.op = "Update"
    /\ result.mg = "Repository"
    /\ result.err = NoErr
    /\ remote # result.remote0
    /\ Deref(result.remote0).HasIssues # spec.HasIssues
    /\ Deref(remote).HasIssues = spec.HasIssues


\* How many "/" a full name holds: it is well formed when it holds one.
Slashes(fullname) == Cardinality({i \in DOMAIN fullname : fullname[i] = "/"})

C15_TemplateNotFoundIsDistinguished ==
    (/\ result.op = "Create"
     /\ result.mg = "Repository"
     /\ result.calls # <<>>
     /\ result.calls[1].call = "CreateFromTemplate"
     /\ result.calls[1].res # Nil) =>
        LET made == result.calls[1]
        IN  /\ ~result.panic
            /\ IF Deref(made.res).StatusCode = 404
               THEN result.err = <<errCreateRepository, errTemplateNotFound>> \o made.err
               ELSE IF made.err # NoErr
               THEN result.err = <<errCreateRepository>> \o made.err
               ELSE result.err = NoErr

\* The template the spec references does not exist.
C15_Witness ==
    /\ result.op = "Create"
    /\ result.mg = "Repository"
    /\ result.calls # <<>>
    /\ result.calls[1].call = "CreateFromTemplate"
    /\ result.calls[1].res = Response(404)
    /\ result.err = <<errCreateRepository, errTemplateNotFound>> \o result.calls[1].err
    /\ remote = Nil


\* Late-initialization changed the spec and the local store refused it.
StoreUpdateFailed ==
    /\ ObservedRepository
    /\ result.get.err = NoErr
    /\ SpecChanged
    /\ result.kube # <<>>
    /\ result.kube[1] # NoErr

\* C16: when late-initialization changed the spec and the local store
\* update fails, Observe returns that error wrapped with "cannot update
\* Repository custom resource" and an empty observation, and neither sets
\* the Available condition nor replaces the status observation.
C16_StoreFailureLeavesStatusAlone ==
    StoreUpdateFailed =>
        /\ ~result.panic
        /\ result.err = <<errKubeUpdateRepository>> \o result.kube[1]
        /\ result.observation = EmptyObservation
        /\ ~result.observation.ResourceExists
        /\ ~result.observation.ResourceLateInitialized
        /\ condition = result.condition0
        /\ atProvider = result.atProvider0

\* The store refuses the spec of a repository that was just created: the
\* condition stays Creating and nothing is observed in the status.
C16_Witness ==
    /\ StoreUpdateFailed
    /\ result.condition0.Reason = ReasonCreating
    /\ condition.Reason = ReasonCreating
    /\ atProvider.Name = ""
    /\ Deref(result.r).Name = {"sample"}


-----------------------------------------------------------------------------
\* Further properties of the Secrets adapter, under SpecSecrets.

-----------------------------------------------------------------------------
\* package controller/organizations: the Membership adapter.  Under
\* SpecMembership the managed resource is a Membership: spec is its
\* MembershipParameters, and remote is the membership of the user in the
\* organization as the hosting API holds it, Nil when there is none.

errUnexpectedMembership == "The managed resource is not a Membership resource"

MembershipParameters ==
    [InviteeID |-> Nil, Email |-> {"octocat@example.org"}, User |-> "octocat",
     Role |-> {"direct_member"}, Organization |-> "acme"]

\* The states of a membership: invited, and accepted.
MembershipStates == {"pending", "active"}

\* managed.ExternalCreation{}
EmptyCreation == [ExternalNameAssigned |-> FALSE]

\* What a handler of the Membership adapter returns and leaves; calls are
\* the calls it made to the hosting API.
MembershipReturn(cond, rem, observation, creation, calls, err) ==
    [condition |-> cond, remote |-> rem, observation |-> observation,
     creation |-> creation, calls |-> calls, err |-> err]

\* Organizations.GetOrgMembership: fails as the API says, or with a 404
\* when the user has no membership.
GetOrgMembership(rem, getErr) ==
    IF getErr # NoErr THEN [m |-> Nil, err |-> getErr]
    ELSE IF rem = Nil THEN [m |-> Nil, err |-> apiNotFound.err]
    ELSE [m |-> rem, err |-> NoErr]

\* membership external.Observe: any failure of the lookup is reported as
\* absence.
MembershipObserve(mg, sp, cond, rem, getErr) ==
    LET got == GetOrgMembership(rem, getErr)
    IN  IF mg # "Membership"
        THEN MembershipReturn(cond, rem, EmptyObservation, EmptyCreation, <<>>,
                              <<errUnexpectedMembership>>)
        ELSE IF got.err # NoErr
        THEN MembershipReturn(cond, rem, EmptyObservation, EmptyCreation,
                              <<"GetOrgMembership">>, NoErr)
        ELSE MembershipReturn(IF Deref(got.m).State = {"active"}
                              THEN [Reason |-> ReasonAvailable]
                              ELSE [Reason |-> ReasonCreating],
                              rem,
                              [ResourceExists |-> TRUE, ResourceUpToDate |-> TRUE,
                               ResourceLateInitialized |-> FALSE],
                              EmptyCreation, <<"GetOrgMembership">>, NoErr)

MembershipCreate_NoKindCheck(mg, sp, cond, rem, inviteErr) ==
    IF inviteErr # NoErr
    THEN MembershipReturn(cond, rem, EmptyObservation, EmptyCreation,
                          <<"CreateOrgInvitation">>, inviteErr)
    ELSE MembershipReturn(cond, IF rem = Nil THEN {[State |-> {"pending"}]} ELSE rem,
                          EmptyObservation, [ExternalNameAssigned |-> TRUE],
                          <<"CreateOrgInvitation">>, NoErr)

\* membership external.Create: the invitation leaves a pending membership.
MembershipCreate(mg, sp, cond, rem, inviteErr) ==
    IF mg # "Membership"
    THEN MembershipReturn(cond, rem, EmptyObservation, EmptyCreation, <<>>,
                          <<errUnexpectedMembership>>)
    ELSE IF inviteErr # NoErr
    THEN MembershipReturn(cond, rem, EmptyObservation, EmptyCreation,
                          <<"CreateOrgInvitation">>, inviteErr)
    ELSE MembershipReturn(cond, IF rem = Nil THEN {[State |-> {"pending"}]} ELSE rem,
                          EmptyObservation, [ExternalNameAssigned |-> TRUE],
                          <<"CreateOrgInvitation">>, NoErr)

\* membership external.Update
MembershipUpdate(mg, sp, cond, rem) ==
    IF mg # "Membership"
    THEN MembershipReturn(cond, rem, EmptyObservation, EmptyCreation, <<>>,
                          <<errUnexpectedMembership>>)
    ELSE MembershipReturn(cond, rem, EmptyObservation, EmptyCreation, <<>>, NoErr)

\* membership external.Delete: the error of RemoveMember is returned as it
\* is.
MembershipDelete(mg, sp, cond, rem, removeErr) ==
    LET err == IF removeErr # NoErr THEN removeErr
               ELSE IF rem = Nil THEN apiNotFound.err ELSE NoErr
    IN  IF mg # "Membership"
        THEN MembershipReturn(cond, rem, EmptyObservation, EmptyCreation, <<>>,
                              <<errUnexpectedMembership>>)
        ELSE MembershipReturn(cond, IF err = NoErr THEN Nil ELSE rem, EmptyObservation,
                              EmptyCreation, <<"RemoveMember">>, err)

-----------------------------------------------------------------------------
\* The Membership adapter at work: the managed reconciler calls Observe,
\* then Create when Observe reported no membership, Delete when it
\* reported one and deletion is asked for, Update never as Observe always
\* reports an existing membership up to date; a handler handed another kind
\* of resource may be called at any time.  Meanwhile the user accepts the
\* invitation, or leaves the organization.

MembershipObserved == result.op = "Observe" /\ result.err = NoErr

NotMembership == ManagedKinds \ {"Membership"}

\* One call of a handler: what it was given, what it leaves.
MembershipCall(op, mg, out) ==
    /\ condition' = out.condition
    /\ remote' = out.remote
    /\ result' = [op |-> op, mg |-> mg, condition0 |-> condition, remote0 |-> remote,
                  observation |-> out.observation, creation |-> out.creation,
                  calls |-> out.calls, err |-> out.err]
    /\ UNCHANGED <<spec, atProvider, edits>>
    /\ UNCHANGED unitVars

DoMembershipObserve ==
    \E mg \in ManagedKinds, getErr \in Failures :
        MembershipCall("Observe", mg, MembershipObserve(mg, spec, condition, remote, getErr))

DoMembershipCreate ==
    \/ /\ MembershipObserved
       /\ ~result.observation.ResourceExists
       /\ \E inviteErr \in Failures :
             MembershipCall("Create", "Membership",
                            MembershipCreate("Membership", spec, condition, remote, inviteErr))
    \/ \E mg \in NotMembership, inviteErr \in Failures :
          MembershipCall("Create", mg, MembershipCreate(mg, spec, condition, remote, inviteErr))

DoMembershipUpdate ==
    \E mg \in ManagedKinds :
        MembershipCall("Update", mg, MembershipUpdate(mg, spec, condition, remote))

DoMembershipDelete ==
    \/ /\ MembershipObserved
       /\ result.observation.ResourceExists
       /\ \E removeErr \in Failures :
             MembershipCall("Delete", "Membership",
                            MembershipDelete("Membership", spec, condition, remote, removeErr))
    \/ \E mg \in NotMembership, removeErr \in Failures :
          MembershipCall("Delete", mg, MembershipDelete(mg, spec, condition, remote, removeErr))

InvitationAccepted ==
    /\ edits < MaxEdits
    /\ remote = {[State |-> {"pending"}]}
    /\ remote' = {[State |-> {"active"}]}
    /\ edits' = edits + 1
    /\ UNCHANGED <<spec, atProvider, condition, result>>
    /\ UNCHANGED unitVars

MemberLeaves ==
    /\ edits < MaxEdits
    /\ remote # Nil
    /\ remote' = Nil
    /\ edits' = edits + 1
    /\ UNCHANGED <<spec, atProvider, condition, result>>
    /\ UNCHANGED unitVars

InitMembership ==
    /\ unit = "membership adapter"
    /\ rp = RepositoryParameters
    /\ r = Repository
    /\ nset = 0
    /\ ret = NoCall
    /\ spec = MembershipParameters
    /\ atProvider = [State |-> Nil]
    /\ condition = [Reason |-> ""]
    /\ remote = Nil
    /\ edits = 0
    /\ result = NoCall

NextMembership ==
    \/ DoMembershipObserve
    \/ DoMembershipCreate
    \/ DoMembershipUpdate
    \/ DoMembershipDelete
    \/ InvitationAccepted
    \/ MemberLeaves

SpecMembership == InitMembership /\ [][NextMembership]_vars

-----------------------------------------------------------------------------
\* The three adapters of the provider, each bound to its kind of managed
\* resource.

InitAdapters == Init \/ InitSecrets \/ InitMembership

NextAdapters ==
    \/ unit = "adapter" /\ Next
    \/ unit = "secrets adapter" /\ NextSecrets
    \/ unit = "membership adapter" /\ NextMembership

SpecAdapters == InitAdapters /\ [][NextAdapters]_vars

-----------------------------------------------------------------------------
\* Properties of the three adapters, under SpecAdapters.

\* The kind of managed resource the adapter at work is bound to.
BoundKind ==
    IF unit = "adapter" THEN "Repository"
    ELSE IF unit = "secrets adapter" THEN "Secrets"
    ELSE "Membership"

HandlerOps == {"Observe", "Create", "Update", "Delete"}

\* The step is a call of a handler with a managed resource of another kind
\* than the adapter's (the steps of the environment count in edits).
WrongKindCall ==
    /\ edits' = edits
    /\ result'.op \in HandlerOps
    /\ result'.mg # BoundKind

\* What the handler called in this step returned is the fixed error of
\* the adapter with an empty result, no call made.
RefusedEmpty ==
    IF unit = "adapter"
    THEN /\ result'.err = <<errUnexpectedObject>>
         /\ ~result'.panic
         /\ IF result'.op = "Observe"
            THEN /\ result'.observation = EmptyObservation
                 /\ result'.get = NoGet
                 /\ result'.kube = <<>>
            ELSE result'.calls = <<>>
    ELSE IF unit = "secrets adapter"
    THEN /\ result'.err = <<errUnexpectedSecrets>>
         /\ result'.observation = EmptyObservation
         /\ result'.calls = <<>>
         /\ result'.op \in {"Create", "Update"} => result'.sent = Nil
    ELSE /\ result'.err = <<errUnexpectedMembership>>
         /\ result'.observation = EmptyObservation
         /\ result'.creation = EmptyCreation
         /\ result'.calls = <<>>

\* C21: for each of the Repository, Secrets and Membership adapters, every
\* one of Observe, Create, Update and Delete called with a managed resource
\* of the wrong kind returns the adapter's fixed "not a ... resource" error
\* and an empty result, makes no remote call and no call of the local
\* store, and changes no state.
C21_WrongKindIsRefusedUntouched ==
    [][WrongKindCall =>
          /\ RefusedEmpty
          /\ UNCHANGED <<spec, atProvider, condition, remote>>]_vars

C21_Witness ==
    /\ unit = "membership adapter"
    /\ result.op = "Create"
    /\ result.mg = "Repository"
    /\ result.err = <<errUnexpectedMembership>>
    /\ result.calls = <<>>
    /\ remote = Nil
    /\ result.remote0 = Nil

-----------------------------------------------------------------------------
\* SpecSplit, package clients/repositories: SplitFullName is called with
\* every template reference of at most MaxLen characters.

MaxLen == 4

Characters == {"o", "t", "/"}

FullNameInputs == UNION { [1..n -> Characters] : n \in 0..MaxLen }

InitSplit ==
    /\ unit = "fullname"
    /\ rp = RepositoryParameters
    /\ r = Repository
    /\ nset = 0
    /\ ret = NoCall
    /\ \E fullname \in FullNameInputs :
          spec = [RepositoryParameters EXCEPT !.Template = {[Name |-> fullname]}]
    /\ atProvider = [Name |-> ""]
    /\ condition = [Reason |-> ""]
    /\ remote = Nil
    /\ edits = 0
    /\ result = NoCall

CallSplitFullName ==
    /\ \E out \in {SplitFullName(Deref(spec.Template).Name)} :
          ret' = [op |-> "SplitFullName", fullname |-> Deref(spec.Template).Name,
                  ref |-> out.ref, err |-> out.err]
    /\ UNCHANGED <<unit, rp, r, nset>>
    /\ UNCHANGED adapterVars

NextSplit == CallSplitFullName

SpecSplit == InitSplit /\ [][NextSplit]_vars

-----------------------------------------------------------------------------
\* Properties of SplitFullName, under SpecSplit.

\* C22: SplitFullName succeeds only when the input holds exactly one "/"
\* with a non-empty segment on each side of it, and then returns the first
\* segment as "owner" and the second as "name"; every other input returns
\* a nil mapping and the fixed invalid-fullname error.
C22_SplitsOnlyTwoNonEmptySegments ==
    ret.op = "SplitFullName" =>
        LET f == ret.fullname
        IN  IF Slashes(f) = 1 /\ f[1] # "/" /\ f[Len(f)] # "/"
            THEN /\ ret.err = NoErr
                 /\ ret.ref # Nil
                 /\ Deref(ret.ref).owner \o <<"/">> \o Deref(ret.ref).name = f
            ELSE /\ ret.ref = Nil
                 /\ ret.err = <<errFullname>>

-----------------------------------------------------------------------------
\* Further properties of the package clients/repositories, under SpecUnit.

\* C23: OverrideParameters is idempotent: for every desired spec rp and
\* every base object r, OverrideParameters(rp, OverrideParameters(rp, r))
\* equals OverrideParameters(rp, r).
C23_OverrideIsIdempotent ==
    ret.op = "OverrideParameters" => OverrideParameters(rp, ret.out) = ret.out

C23_Witness ==
    /\ ret.op = "OverrideParameters"
    /\ rp.Description # Nil
    /\ r.Description # rp.Description
    /\ ret.out # r
    /\ ret.out.Description = rp.Description
    /\ OverrideParameters(rp, ret.out) = ret.out

-----------------------------------------------------------------------------
\* Properties of sequences of calls of the Repository adapter, under Spec.

\* The step is a call of the handler op on a managed resource of the kind
\* mg (the steps of the environment count in edits).
HandlerCall(op, mg) ==
    /\ edits' = edits
    /\ result'.op = op
    /\ result'.mg = mg

\* The hosting API answered the lookup: it found the repository or
\* reported that there is none.
Answered(l) == l.res # Nil /\ Deref(l.res).StatusCode \in {200, 404}

\* The hosting API answered every lookup of the sequence, and every update
\* of the local store succeeded.
AllAnswered(lookups) == \A i \in DOMAIN lookups : IsLookup(lookups[i]) => Answered(lookups[i])

AllStored(kube) == \A i \in DOMAIN kube : kube[i] = NoErr

\* The spec name was changed while the repository still has the name the
\* status records.
RenamePending ==
    /\ spec.Name # ""
    /\ atProvider.Name # ""
    /\ spec.Name # atProvider.Name
    /\ Holds(remote, atProvider.Name)

\* The Observe after the change of name finds the repository by the name
\* of the status and reports it as not up to date.
RenameObserved ==
    (/\ RenamePending
     /\ HandlerCall("Observe", "Repository")
     /\ AllAnswered(result'.get.lookups)
     /\ AllStored(result'.kube)) =>
        /\ ~result'.panic
        /\ result'.err = NoErr
        /\ Len(result'.get.lookups) = 2
        /\ result'.get.lookups[1].name = spec.Name
        /\ Deref(result'.get.lookups[1].res).StatusCode = 404
        /\ result'.get.lookups[2].name = atProvider.Name
        /\ result'.get.lookups[2].err = NoErr
        /\ result'.observation.ResourceExists
        /\ ~result'.observation.ResourceUpToDate

\* The Update that follows addresses its edit to the old name with a body
\* that carries the new one; the hosting API, when it accepts the edit,
\* holds the repository under the new name.
RenameSent ==
    (/\ RenamePending
     /\ HandlerCall("Update", "Repository")
     /\ AllAnswered(result'.calls)) =>
        LET c == result'.calls[Len(result'.calls)]
        IN  /\ Len(result'.calls) = 3
            /\ IsCall(c)
            /\ c.call = "Edit"
            /\ c.owner = spec.Owner
            /\ c.name = atProvider.Name
            /\ c.repo.Name = {spec.Name}
            /\ c.err = NoErr => Holds(remote', spec.Name)

\* result is what an Update left, the edit accepted, and the hosting API
\* holds the body of the edit (AutoInit is not stored).
UpdateApplied ==
    /\ result.op = "Update"
    /\ result.mg = "Repository"
    /\ result.err = NoErr
    /\ remote # Nil
    /\ cmpEqual(Deref(remote), result.calls[Len(result.calls)].repo, {"AutoInit"})

\* The Update applied was a rename.
RenameApplied ==
    /\ UpdateApplied
    /\ result.calls[Len(result.calls)].name # spec.Name
    /\ result.calls[Len(result.calls)].repo.Name = {spec.Name}

\* The Observe after the rename finds the repository by the new name,
\* reports it up to date and records the new name in the status.
RenameConverged ==
    (/\ RenameApplied
     /\ HandlerCall("Observe", "Repository")
     /\ AllAnswered(result'.get.lookups)
     /\ AllStored(result'.kube)) =>
        /\ ~result'.panic
        /\ result'.err = NoErr
        /\ Len(result'.get.lookups) = 1
        /\ result'.get.lookups[1].name = spec.Name
        /\ result'.observation.ResourceExists
        /\ result'.observation.ResourceUpToDate
        /\ atProvider'.Name = spec.Name

\* C24: in-place rename converges.  With status name and remote name N and
\* the spec name changed to M, the next Observe finds the repository
\* through N and reports exists=true, upToDate=false; the following Update
\* addresses its edit to N with a body carrying the name M; and once the
\* remote has applied it the next Observe finds the repository by M,
\* reports upToDate=true and records M as the status name.
C24_RenameConverges ==
    [][RenameObserved /\ RenameSent /\ RenameConverged]_vars

C24_Witness ==
    /\ result.op = "Observe"
    /\ result.mg = "Repository"
    /\ result.atProvider0.Name = "sample"
    /\ spec.Name = "renamed"
    /\ atProvider.Name = "renamed"
    /\ Holds(remote, "renamed")
    /\ result.observation.ResourceUpToDate

-----------------------------------------------------------------------------
\* Properties of sequences of calls of the Secrets adapter, under
\* SpecSecrets.

\* The plaintext the handler read from the local store in the call that
\* left the result res.
Plaintext(res) == ExtractSecret(res.client, spec.Value).val

\* A Create or Update caches the hash of the plaintext it uploaded and the
\* time of the remote secret when the upload and the fetch after it
\* succeeded, and leaves the cache alone when it returns an error.
UploadCaches ==
    \A op \in {"Create", "Update"} :
        HandlerCall(op, "Secrets") =>
            IF result'.err = NoErr
            THEN /\ result'.keyErr = NoErr
                 /\ result'.uploadErr = NoErr
                 /\ result'.getErr = NoErr
                 /\ Deref(result'.sent).EncryptedValue[4] = Plaintext(result')
                 /\ remote' # Nil
                 /\ Deref(remote').EncryptedValue = Deref(result'.sent).EncryptedValue
                 /\ atProvider'.EncryptValue = {generateHash(Plaintext(result'))}
                 /\ atProvider'.LastUpdate = {TimestampString(Deref(remote').UpdatedAt)}
            ELSE /\ result'.keyErr # NoErr \/ result'.uploadErr # NoErr \/ result'.getErr # NoErr
                 /\ atProvider' = atProvider

\* result is what a successful Create or Update left.
AfterUpload ==
    /\ result.op \in {"Create", "Update"}
    /\ result.mg = "Secrets"
    /\ result.err = NoErr

\* The Observe after a successful upload, the hosting API holding the
\* secret and answering: up to date exactly when the plaintext is the one
\* uploaded and the time of the remote secret is the one cached.
ObserveAfterUpload ==
    (/\ AfterUpload
     /\ HandlerCall("Observe", "Secrets")
     /\ remote # Nil
     /\ result'.getErr = NoErr
     /\ result'.keyErr = NoErr) =>
        /\ result'.err = NoErr
        /\ result'.observation.ResourceExists
        /\ result'.observation.ResourceUpToDate <=>
              /\ Plaintext(result') = Plaintext(result)
              /\ {TimestampString(Deref(remote).UpdatedAt)} = atProvider.LastUpdate

\* C25: after a successful Secrets Create or Update the status caches the
\* hash of the uploaded plaintext and the remote's updated-at string, so
\* an Observe that follows with both unchanged reports exists=true,
\* upToDate=true; if the plaintext or the remote's updated-at changed, the
\* next Observe reports upToDate=false; and when the upload or the fetch
\* after it fails, the cached hash and time keep their previous values.
C25_UploadCachesHashAndTime ==
    [][UploadCaches /\ ObserveAfterUpload]_vars

\* The secret was uploaded, another client uploaded it anew, and Observe
\* reports it as not up to date although the plaintext is the same.
C25_Witness ==
    /\ result.op = "Observe"
    /\ result.mg = "Secrets"
    /\ result.err = NoErr
    /\ result.client = {"test"}
    /\ atProvider.EncryptValue = {generateHash("test")}
    /\ remote # Nil
    /\ atProvider.LastUpdate # {TimestampString(Deref(remote).UpdatedAt)}
    /\ result.observation.ResourceExists
    /\ ~result.observation.ResourceUpToDate

\* C26: late-initialization introduces no drift within the Observe cycle:
\* whenever IsUpToDate(rp, r) is true before LateInitialize(rp, r, c), it
\* is true of the two objects as LateInitialize leaves them, whatever the
\* condition reason; and in the creating phase with a template origin and
\* the desired default branch unset, the default branch filled in is equal
\* to the corrected observed default branch.
C26_LateInitializeKeepsUpToDate ==
    ret.op = "LateInitialize" =>
        /\ IsUpToDate(ret.rp0, ret.r0).ok => IsUpToDate(rp, r).ok
        /\ (creatingFromTemplate(ret.r0, ret.c) /\ ret.rp0.DefaultBranch = Nil) =>
              /\ rp.DefaultBranch = r.DefaultBranch
              /\ r.DefaultBranch = Deref(ret.r0.TemplateRepository).DefaultBranch

C26_Witness ==
    /\ ret.op = "LateInitialize"
    /\ ret.c.Reason = ReasonCreating
    /\ ret.rp0.DefaultBranch = Nil
    /\ ret.r0.TemplateRepository # Nil
    /\ ret.r0.DefaultBranch = {"main"}
    /\ Deref(ret.r0.TemplateRepository).DefaultBranch = {"dev"}
    /\ IsUpToDate(ret.rp0, ret.r0).ok
    /\ rp.DefaultBranch = {"dev"}
    /\ r.DefaultBranch = {"dev"}
    /\ IsUpToDate(rp, r).ok

\* The desired specs and the observed repositories that differ from the
\* defaults in at most one field.
UnitParameters ==
    {RepositoryParameters} \cup
    UNION { { [RepositoryParameters EXCEPT ![f] = v] : v \in ParameterValues(f) } :
              f \in DOMAIN RepositoryParameters }

UnitRepositories ==
    {Repository} \cup
    UNION { { WithObserved(Repository, f, v) : v \in ObservedValues(f) } :
              f \in DOMAIN Repository }

\* IsUpToDate is true of what OverrideParameters returns.
OverrideConverges ==
    \A p \in UnitParameters, base \in UnitRepositories :
        IsUpToDate(p, OverrideParameters(p, base)).ok

\* The body of the edit Update sends is up to date with the spec.
UpdateBodyUpToDate ==
    (/\ HandlerCall("Update", "Repository")
     /\ result'.calls # <<>>
     /\ IsCall(result'.calls[Len(result'.calls)])) =>
        IsUpToDate(spec, result'.calls[Len(result'.calls)].repo).ok

\* The managed reconciler asks for an Update.
UpdateRequested ==
    /\ Observed
    /\ result.observation.ResourceExists
    /\ ~result.observation.ResourceUpToDate

\* The Observe after an Update that the hosting API applied reports the
\* repository up to date: no Update is asked for.
UpdateConverged ==
    (/\ UpdateApplied
     /\ HandlerCall("Observe", "Repository")
     /\ AllAnswered(result'.get.lookups)
     /\ AllStored(result'.kube)) =>
        /\ ~result'.panic
        /\ result'.err = NoErr
        /\ result'.observation.ResourceExists
        /\ result'.observation.ResourceUpToDate
        /\ ~UpdateRequested'

\* C27: Update converges in one step.  IsUpToDate(rp, OverrideParameters(rp,
\* r)) is true for every desired spec rp and observed repository r (here:
\* those of UnitParameters and UnitRepositories, taken once at the first
\* step, and those of every Update); hence when the remote stores the body
\* of the edit unchanged, the Observe that follows with the desired spec
\* unchanged reports upToDate=true and no further Update is requested.
C27_UpdateConvergesInOneStep ==
    [][/\ (edits = 0 /\ result = NoCall) => OverrideConverges
       /\ UpdateBodyUpToDate
       /\ UpdateConverged]_vars

\* An Update has put the description of the spec in place of none, and the
\* hosting API holds the body of the edit.
C27_Witness ==
    /\ UpdateApplied
    /\ spec.Description = {"a"}
    /\ Deref(result.remote0).Description = Nil
    /\ result.calls[Len(result.calls)].repo.Description = {"a"}
    /\ Deref(remote).Description = {"a"}
    /\ IsUpToDate(spec, Deref(remote)).ok

\* Observe with no hash cached reports the secret absent and up to date,
\* without a call.
ObserveUncached ==
    (HandlerCall("Observe", "Secrets") /\ atProvider.EncryptValue = Nil) =>
        /\ result'.err = NoErr
        /\ ~result'.observation.ResourceExists
        /\ result'.observation.ResourceUpToDate
        /\ result'.calls = <<>>
        /\ remote' = remote

\* A Delete that succeeds clears the cache; one that fails returns the
\* failure wrapped and leaves the cache alone.
DeleteClearsCache ==
    HandlerCall("Delete", "Secrets") =>
        IF result'.err = NoErr
        THEN /\ result'.deleteErr = NoErr
             /\ result'.calls = <<"DeleteRepoSecret">>
             /\ atProvider'.EncryptValue = Nil
             /\ atProvider'.LastUpdate = Nil
        ELSE /\ result'.err = <<errDeleteSecrets>> \o
                    (IF result'.deleteErr # NoErr THEN result'.deleteErr ELSE apiNotFound.err)
             /\ atProvider' = atProvider

\* The Observe that follows a successful Delete reports the secret absent.
ObserveAfterDelete ==
    (/\ result.op = "Delete"
     /\ result.mg = "Secrets"
     /\ result.err = NoErr
     /\ HandlerCall("Observe", "Secrets")) =>
        /\ result'.err = NoErr
        /\ ~result'.observation.ResourceExists
        /\ result'.calls = <<>>

\* C28: Secrets existence is decided by the cached hash alone.  Observe
\* with no cached hash returns exists=false, upToDate=true and makes no
\* remote call; a successful Delete clears the cached hash and the cached
\* last update, so the Observe that follows reports exists=false; a failed
\* Delete returns the error wrapped with "cannot delete Secrets" and leaves
\* both cached values unchanged.
C28_ExistenceIsTheCachedHash ==
    [][ObserveUncached /\ DeleteClearsCache /\ ObserveAfterDelete]_vars

\* The Observe after a Delete that removed an uploaded secret.
C28_Witness ==
    /\ result.op = "Observe"
    /\ result.mg = "Secrets"
    /\ result.condition0.Reason = ReasonDeleting
    /\ result.atProvider0 = SecretsObservation
    /\ result.getErr # NoErr
    /\ remote = Nil
    /\ result.err = NoErr
    /\ ~result.observation.ResourceExists
    /\ result.observation.ResourceUpToDate
    /\ result.calls = <<>>

-----------------------------------------------------------------------------
\* Properties of the failures of the hosting API, under Spec.

\* C29: when a remote call fails with no response (the call was cancelled,
\* or failed before a response arrived), repository Observe and repository
\* Create return an error to the caller; they do not abort abnormally and
\* do not report the resource as absent or as created.
C29_NoResponseIsAnError ==
    /\ (/\ ObservedRepository
        /\ result.get.err # NoErr
        /\ result.get.res = Nil) =>
           /\ ~result.panic
           /\ result.err # NoErr
    /\ (/\ result.op = "Create"
        /\ result.mg = "Repository"
        /\ \E i \in DOMAIN result.calls :
              result.calls[i].err # NoErr /\ result.calls[i].res = Nil) =>
           /\ ~result.panic
           /\ result.err # NoErr
           /\ remote = result.remote0

-----------------------------------------------------------------------------
\* The objects the functions of clients/repositories are handed, under
\* SpecUnit.  rp and r are the objects of the caller: IsUpToDate works on a
\* deep copy of r, OverrideParameters on its own copy of the base, and
\* LateInitialize on the caller's objects themselves.

\* The step is a call of the function op (the arguments are built only
\* before the first call).
FunctionCall(op) == ret' # NoCall /\ ret'.op = op

\* C30: the observed repository is modified only by the default-branch
\* correction.  IsUpToDate leaves the desired spec and the observed
\* repository unchanged, OverrideParameters leaves its base unchanged, and
\* LateInitialize changes the observed repository only by setting its
\* default branch to that of the template origin when the reason is
\* Creating, a template origin exists and the desired default branch was
\* unset.
C30_ObservedChangesOnlyByCorrection ==
    [][/\ FunctionCall("IsUpToDate") => (rp' = rp /\ r' = r)
       /\ FunctionCall("OverrideParameters") => r' = r
       /\ \A c \in Conditions :
             (FunctionCall("LateInitialize") /\ ret'.c = c) =>
                 IF /\ c.Reason = ReasonCreating
                    /\ r.TemplateRepository # Nil
                    /\ rp.DefaultBranch = Nil
                 THEN r' = [r EXCEPT !.DefaultBranch =
                                        Deref(r.TemplateRepository).DefaultBranch]
                 ELSE r' = r]_vars

\* The correction was made: only the default branch of the observed
\* repository differs.
C30_Witness ==
    /\ ret.op = "LateInitialize"
    /\ ret.c.Reason = ReasonCreating
    /\ ret.rp0.DefaultBranch = Nil
    /\ ret.r0.DefaultBranch = {"main"}
    /\ r # ret.r0
    /\ r = [ret.r0 EXCEPT !.DefaultBranch = {"dev"}]

=============================================================================
